---- MODULE Spec2Model ----
(***************************************************************************)
(* Dosage recommender and local interaction matcher of the Drug Safety     *)
(* Toolkit (src/gen.py).                                                   *)
(*                                                                         *)
(* Representation.  A Python str is a sequence of one-character strings;   *)
(* the en dash U+2013 of the rule texts is the character EnDash.  A float  *)
(* is a decimal fixed-point integer: ages are hundredths of a year         *)
(* (Years), weights tenths of a kilogram (Kg); intermediate products are   *)
(* exact fractions [n, d].  Python's None is the empty tuple and a present *)
(* value x is <<x>>.                                                       *)
(***************************************************************************)
EXTENDS Integers, Sequences, FiniteSets, TLC

VARIABLES
  medications,    \* module-level rule table: drug key -> list of rules
  drug_name,      \* pending request: drug name ...
  age_years,      \*   ... age (hundredths of a year)
  weight_kg,      \*   ... weight (None or tenths of a kilogram)
  call,           \* arguments recommend_dose was last invoked with, or None
  rec,            \* what that invocation returned, or None
  trace,          \* helpers that invocation called, in order
  raised,         \* exception that escaped the last operation, "" when none
  probe,          \* history: what the first call with ProbeCall's arguments
                  \* returned, and how far a later repetition has come
  ddi_file,       \* state the last load_local_ddi found local_ddi.csv in
  drug_names,     \* find_ddi_local: input drug list
  local_records,  \* interaction rows: what local_ddi.csv holds when it has
                  \* rows, and the records passed to find_ddi_local
  fuzz_threshold, \* find_ddi_local: threshold passed in
  mapping,        \* find_ddi_local: input drug -> matched name or None
  found,          \* find_ddi_local: returned list, or None before a call
  shown,          \* what the interaction tab reported for the local lookup
  ddi_call,       \* which operation produced the matcher's results, "" when none
  remote,         \* interaction tab: what normalization and the remote
                  \* interaction service gave the last check
  callers,        \* concurrent callers of the core: each one's call in progress
  direct,         \* the last call made to one of the dosing helpers by itself
  session_state,  \* st.session_state: conversation_history and ai_context
  assistant       \* AI assistant: the clock, the last operation on the session and
                  \* the prompt it built, the exchanges added since the last clear

vars == << medications, drug_name, age_years, weight_kg, call, rec, trace,
           raised, probe, ddi_file, drug_names, local_records, fuzz_threshold,
           mapping, found, shown, ddi_call,
           remote, callers, direct, session_state, assistant >>

doseVars == << drug_name, age_years, weight_kg, call, rec, trace >>
ddiVars  == << ddi_file, drug_names, local_records, fuzz_threshold,
               mapping, found, shown, ddi_call >>

-----------------------------------------------------------------------------
(* Python values *)

None == << >>
Some(x) == << x >>
Val(o) == o[1]

\* y years as an age, k kilograms as a weight
Years(y) == 100 * y
Kg(k) == 10 * k

EnDash == "EN DASH"

-----------------------------------------------------------------------------
(* str helpers *)

DigitChars == <<"0","1","2","3","4","5","6","7","8","9">>
UpperChars == <<"A","B","C","D","E","F","G","H","I","J","K","L","M",
                "N","O","P","Q","R","S","T","U","V","W","X","Y","Z">>
LowerChars == <<"a","b","c","d","e","f","g","h","i","j","k","l","m",
                "n","o","p","q","r","s","t","u","v","w","x","y","z">>

IndexIn(c, chars) ==
  IF \E i \in 1..Len(chars) : chars[i] = c
  THEN CHOOSE i \in 1..Len(chars) : chars[i] = c
  ELSE 0

IsDigit(c) == IndexIn(c, DigitChars) > 0
DigitVal(c) == IndexIn(c, DigitChars) - 1
IsSpace(c) == c \in {" ", "\t", "\n"}

\* the name used as typed
LowerOmitted(s) == s

\* str.lower(), character by character
LowerChar(c) == IF IndexIn(c, UpperChars) > 0 THEN LowerChars[IndexIn(c, UpperChars)] ELSE c
Lower(s) == [i \in 1..Len(s) |-> LowerChar(s[i])]

\* s[k:] with a 0-based, non-negative k
Slice(s, k) == IF k >= Len(s) THEN << >> ELSE SubSeq(s, k + 1, Len(s))

\* does t occur in s at the 1-based position i
StartsAt(s, i, t) ==
  /\ i >= 1
  /\ i + Len(t) - 1 <= Len(s)
  /\ \A j \in 1..Len(t) : s[i + j - 1] = t[j]

\* str.find: 0-based index of the first occurrence, -1 when absent
Find(s, t) ==
  IF \E i \in 1..(Len(s) + 1) : StartsAt(s, i, t)
  THEN (CHOOSE i \in 1..(Len(s) + 1) :
          /\ StartsAt(s, i, t)
          /\ \A j \in 1..(i - 1) : ~StartsAt(s, j, t)) - 1
  ELSE -1

RECURSIVE Pow10(_)
Pow10(k) == IF k = 0 THEN 1 ELSE 10 * Pow10(k - 1)

\* str(n) for an integer n >= 0
RECURSIVE NatToStr(_)
NatToStr(n) ==
  IF n < 10 THEN << DigitChars[n + 1] >>
  ELSE NatToStr(n \div 10) \o << DigitChars[(n % 10) + 1] >>

IntToStr(n) == IF n < 0 THEN <<"-">> \o NatToStr(-n) ELSE NatToStr(n)

\* position after the longest run of digits / of whitespace starting at i
RECURSIVE DigitsEnd(_, _)
DigitsEnd(s, i) == IF i <= Len(s) /\ IsDigit(s[i]) THEN DigitsEnd(s, i + 1) ELSE i

RECURSIVE SpacesEnd(_, _)
SpacesEnd(s, i) == IF i <= Len(s) /\ IsSpace(s[i]) THEN SpacesEnd(s, i + 1) ELSE i

\* int() of the digits s[i..j-1]
RECURSIVE DigitsVal(_, _, _)
DigitsVal(s, i, j) ==
  IF j <= i THEN 0 ELSE 10 * DigitsVal(s, i, j - 1) + DigitVal(s[j - 1])

-----------------------------------------------------------------------------
(* float arithmetic and formatting *)

\* A float is the fraction n/d of its decimal value, with err the sign of the
\* difference between the IEEE double and that value where it decides a
\* rounding (0 elsewhere).
RECURSIVE Gcd(_, _)
Gcd(a, b) == IF b = 0 THEN a ELSE Gcd(b, a % b)

\* n/d in lowest terms (d > 0)
Frac(n, d) ==
  LET g == IF n = 0 THEN d ELSE Gcd(IF n < 0 THEN -n ELSE n, d)
  IN  [n |-> n \div g, d |-> d \div g, err |-> 0]
Same(x, y) == x.n = y.n /\ x.d = y.d
Less(x, y) == x.n * y.d < y.n * x.d
Abs(n) == IF n < 0 THEN -n ELSE n

\* Products that are a tie at the printed digit in decimal and whose double
\* is not: 0.07 * 35.0 is 2.4500000000000001776 and 3.5 * 49.9 is
\* 174.65000000000000568 (both print rounded up), 0.5 * 49.9 is
\* 24.949999999999999289 (prints rounded down).
InexactTies ==
  { [x |-> Frac(7, 100), y |-> Frac(350, 10), err |-> 1],
    [x |-> Frac(35, 10), y |-> Frac(499, 10), err |-> 1],
    [x |-> Frac(5, 10),  y |-> Frac(499, 10), err |-> -1] }

FloatErr(x, y) ==
  IF \E e \in InexactTies : Same(e.x, x) /\ Same(e.y, y)
  THEN (CHOOSE e \in InexactTies : Same(e.x, x) /\ Same(e.y, y)).err
  ELSE 0

\* x * y
Times(x, y) == [Frac(x.n * y.n, x.d * y.d) EXCEPT !.err = FloatErr(x, y)]

\* n/d (n >= 0) rounded to the nearest integer as float formatting rounds:
\* by the double's exact value, which on a decimal tie is ties-to-even when
\* the double is exact and follows err when it is not
RoundFloat(n, d, err) ==
  LET q == n \div d
      r == n % d
  IN  IF 2 * r > d THEN q + 1
      ELSE IF 2 * r < d THEN q
      ELSE IF err > 0 THEN q + 1
      ELSE IF err < 0 THEN q
      ELSE IF q % 2 = 0 THEN q ELSE q + 1

\* a non-negative integer as exactly k digits
RECURSIVE PadDigits(_, _)
PadDigits(n, k) ==
  IF k = 0 THEN << >> ELSE PadDigits(n \div 10, k - 1) \o << DigitChars[(n % 10) + 1] >>

\* f"{x:.pf}"
FormatF(x, p) ==
  LET scaled == RoundFloat(Abs(x.n) * Pow10(p), x.d, x.err)
      whole  == NatToStr(scaled \div Pow10(p))
      sign   == IF x.n < 0 THEN <<"-">> ELSE << >>
  IN  IF p = 0 THEN sign \o whole
      ELSE sign \o whole \o <<".">> \o PadDigits(scaled % Pow10(p), p)

-----------------------------------------------------------------------------
(* the regular expressions of the two parsers *)

NoMatch == [ok |-> FALSE]

\* (\d+(\.\d+)?) whose first run of digits ends before e1 and whose
\* fraction, when it has one, ends before e2
DecimalGroups(s, i, e1, e2) ==
  [ok |-> TRUE, end |-> e2,
   val |-> IF e2 > e1
           THEN Frac(DigitsVal(s, i, e1) * Pow10(e2 - e1 - 1) + DigitsVal(s, e1 + 1, e2),
                     Pow10(e2 - e1 - 1))
           ELSE Frac(DigitsVal(s, i, e1), 1)]

DecimalFrom(s, i, e1) ==
  IF e1 = i THEN NoMatch
  ELSE IF e1 <= Len(s) /\ s[e1] = "." /\ DigitsEnd(s, e1 + 1) > e1 + 1
       THEN DecimalGroups(s, i, e1, DigitsEnd(s, e1 + 1))
       ELSE DecimalGroups(s, i, e1, e1)

\* (\d+(\.\d+)?) anchored at i
DecimalAt(s, i) == DecimalFrom(s, i, DigitsEnd(s, i))

IntegerFrom(s, i, e1) ==
  IF e1 = i THEN NoMatch
  ELSE [ok |-> TRUE, end |-> e1, val |-> DigitsVal(s, i, e1)]

\* (\d+) anchored at i
IntegerAt(s, i) == IntegerFrom(s, i, DigitsEnd(s, i))

Unit_mg  == <<"m","g">>
Unit_mcg == <<"m","c","g">>
Unit_g   == <<"g">>
PerKg    == <<"/","k","g">>
Units    == << Unit_mg, Unit_mcg, Unit_g >>

\* (mg|mcg|g) anchored at i and followed by the literal `after`: the first
\* alternative, in the order written, that lets the rest match
UnitAt(s, i, after) ==
  LET fits(u) == StartsAt(s, i, u) /\ StartsAt(s, i + Len(u), after)
  IN  IF \E k \in 1..Len(Units) : fits(Units[k])
      THEN LET k == CHOOSE k \in 1..Len(Units) :
                      fits(Units[k]) /\ \A j \in 1..(k - 1) : ~fits(Units[j])
           IN  [ok |-> TRUE, unit |-> Units[k], end |-> i + Len(Units[k]) + Len(after)]
      ELSE NoMatch

\* The three patterns have one shape, number (EnDash number)? \s* unit after:
\* the kind of number, whether the range group is there, and the literal
\* that follows the unit.
\* (\d+(\.\d+)?)\s*(mg|mcg|g)
MaxPattern == [number |-> "decimal", ranged |-> FALSE, after |-> << >>]
\* (\d+(\.\d+)?)(EnDash(\d+(\.\d+)?))?\s*(mg|mcg|g)/kg
PerKgPattern == [number |-> "decimal", ranged |-> TRUE, after |-> PerKg]
\* (\d+)(EnDash(\d+))?\s*(mg|mcg|g)
RangePattern == [number |-> "integer", ranged |-> TRUE, after |-> << >>]

NumberAt(pattern, s, i) ==
  IF pattern.number = "decimal" THEN DecimalAt(s, i) ELSE IntegerAt(s, i)

\* the optional range group after the first number lo
UpperAt(pattern, s, lo) ==
  IF pattern.ranged /\ lo.ok /\ lo.end <= Len(s) /\ s[lo.end] = EnDash
  THEN NumberAt(pattern, s, lo.end + 1)
  ELSE NoMatch

\* the unit after the numbers lo and hi
UnitAfter(pattern, s, lo, hi) ==
  IF lo.ok
  THEN UnitAt(s, SpacesEnd(s, IF hi.ok THEN hi.end ELSE lo.end), pattern.after)
  ELSE NoMatch

\* the match object: its groups low, high (None when the group took no
\* part) and unit
Groups(lo, hi, u) ==
  IF lo.ok /\ u.ok
  THEN [ok |-> TRUE, low |-> lo.val,
        high |-> IF hi.ok THEN Some(hi.val) ELSE None,
        unit |-> u.unit]
  ELSE NoMatch

MatchAfterUpper(pattern, s, lo, hi) == Groups(lo, hi, UnitAfter(pattern, s, lo, hi))
MatchAfterLower(pattern, s, lo) == MatchAfterUpper(pattern, s, lo, UpperAt(pattern, s, lo))

\* pattern.match at position i
MatchAt(pattern, s, i) == MatchAfterLower(pattern, s, NumberAt(pattern, s, i))

\* m when it is a match, else the outcome of the search further on
OrElse(m, rest) == IF m.ok THEN m ELSE rest

\* re.search: the match at the leftmost position that has one
RECURSIVE SearchFrom(_, _, _)
SearchFrom(pattern, s, i) ==
  IF i > Len(s) THEN NoMatch
  ELSE OrElse(MatchAt(pattern, s, i), SearchFrom(pattern, s, i + 1))

Search(pattern, s) == SearchFrom(pattern, s, 1)

-----------------------------------------------------------------------------
(* the rule table, ages in hundredths of a year *)

\* "paracetamol"
Rules_paracetamol ==
  << [age_min |-> 0, age_max |-> 100,
      dose |-> <<"1","0"," ","m","g","/","k","g"," ","e","v","e","r","y"," ","6","h">>,
      max |-> <<"4","0"," ","m","g","/","k","g","/","d","a","y">>],
     [age_min |-> 100, age_max |-> 1200,
      dose |-> <<"1","5"," ","m","g","/","k","g"," ","e","v","e","r","y"," ","6","h">>,
      max |-> <<"6","0"," ","m","g","/","k","g","/","d","a","y">>],
     [age_min |-> 1200, age_max |-> 20000,
      dose |-> <<"5","0","0",EnDash,"1","0","0","0"," ","m","g"," ","e","v","e","r","y"," ","6","h">>,
      max |-> <<"4"," ","g","/","d","a","y">>] >>

\* "ibuprofen"
Rules_ibuprofen ==
  << [age_min |-> 50, age_max |-> 100,
      dose |-> <<"5"," ","m","g","/","k","g"," ","e","v","e","r","y"," ","8","h">>,
      max |-> <<"4","0"," ","m","g","/","k","g","/","d","a","y">>],
     [age_min |-> 100, age_max |-> 1200,
      dose |-> <<"1","0"," ","m","g","/","k","g"," ","e","v","e","r","y"," ","6",EnDash,"8","h">>,
      max |-> <<"4","0"," ","m","g","/","k","g","/","d","a","y">>],
     [age_min |-> 1200, age_max |-> 20000,
      dose |-> <<"2","0","0",EnDash,"4","0","0"," ","m","g"," ","e","v","e","r","y"," ","6","h">>,
      max |-> <<"1","2","0","0"," ","m","g","/","d","a","y"," ","(","O","T","C",")">>] >>

\* "amoxicillin"
Rules_amoxicillin ==
  << [age_min |-> 0, age_max |-> 100,
      dose |-> <<"2","0"," ","m","g","/","k","g","/","d","a","y"," ","d","i","v","i","d","e","d"," ","3"," ","d","o","s","e","s">>,
      max |-> <<"3","0"," ","m","g","/","k","g","/","d","a","y">>],
     [age_min |-> 100, age_max |-> 1200,
      dose |-> <<"2","5",EnDash,"5","0"," ","m","g","/","k","g","/","d","a","y"," ","i","n"," ","2",EnDash,"3"," ","d","o","s","e","s">>,
      max |-> <<"9","0"," ","m","g","/","k","g","/","d","a","y">>],
     [age_min |-> 1200, age_max |-> 20000,
      dose |-> <<"5","0","0"," ","m","g"," ","e","v","e","r","y"," ","8","h">>,
      max |-> <<"3"," ","g","/","d","a","y">>] >>

\* "azithromycin"
Rules_azithromycin ==
  << [age_min |-> 100, age_max |-> 1200,
      dose |-> <<"1","0"," ","m","g","/","k","g"," ","o","n","c","e"," ","d","a","i","l","y">>,
      max |-> <<"5","0","0"," ","m","g">>],
     [age_min |-> 1200, age_max |-> 20000,
      dose |-> <<"5","0","0"," ","m","g"," ","d","a","y"," ","1",","," ","t","h","e","n"," ","2","5","0"," ","m","g"," ","d","a","i","l","y">>,
      max |-> <<"1",".","5"," ","g","/","c","o","u","r","s","e">>] >>

\* "aspirin"
Rules_aspirin ==
  << [age_min |-> 1200, age_max |-> 20000,
      dose |-> <<"7","5",EnDash,"3","2","5"," ","m","g"," ","o","n","c","e"," ","d","a","i","l","y">>,
      max |-> <<"4"," ","g","/","d","a","y">>] >>

\* the rules of "metformin" with the adult band starting at 16
Rules_metformin_overlapping ==
  << [age_min |-> 1000, age_max |-> 1800,
      dose |-> <<"5","0","0"," ","m","g"," ","t","w","i","c","e"," ","d","a","i","l","y">>,
      max |-> <<"2"," ","g","/","d","a","y">>],
     [age_min |-> 1600, age_max |-> 20000,
      dose |-> <<"5","0","0",EnDash,"1","0","0","0"," ","m","g"," ","t","w","i","c","e"," ","d","a","i","l","y">>,
      max |-> <<"2",".","5"," ","g","/","d","a","y">>] >>

\* "metformin"
Rules_metformin ==
  << [age_min |-> 1000, age_max |-> 1800,
      dose |-> <<"5","0","0"," ","m","g"," ","t","w","i","c","e"," ","d","a","i","l","y">>,
      max |-> <<"2"," ","g","/","d","a","y">>],
     [age_min |-> 1800, age_max |-> 20000,
      dose |-> <<"5","0","0",EnDash,"1","0","0","0"," ","m","g"," ","t","w","i","c","e"," ","d","a","i","l","y">>,
      max |-> <<"2",".","5"," ","g","/","d","a","y">>] >>

\* "omeprazole"
Rules_omeprazole ==
  << [age_min |-> 100, age_max |-> 1200,
      dose |-> <<"0",".","7",EnDash,"3",".","5"," ","m","g","/","k","g","/","d","a","y">>,
      max |-> <<"2","0"," ","m","g","/","d","a","y">>],
     [age_min |-> 1200, age_max |-> 20000,
      dose |-> <<"2","0",EnDash,"4","0"," ","m","g"," ","d","a","i","l","y">>,
      max |-> <<"4","0"," ","m","g","/","d","a","y">>] >>

\* "prednisone"
Rules_prednisone ==
  << [age_min |-> 100, age_max |-> 1200,
      dose |-> <<"0",".","5",EnDash,"2"," ","m","g","/","k","g","/","d","a","y">>,
      max |-> <<"6","0"," ","m","g","/","d","a","y">>],
     [age_min |-> 1200, age_max |-> 20000,
      dose |-> <<"5",EnDash,"6","0"," ","m","g"," ","d","a","i","l","y">>,
      max |-> <<"8","0"," ","m","g","/","d","a","y">>] >>

\* "ciprofloxacin"
Rules_ciprofloxacin ==
  << [age_min |-> 100, age_max |-> 1200,
      dose |-> <<"1","0"," ","m","g","/","k","g"," ","e","v","e","r","y"," ","1","2","h">>,
      max |-> <<"5","0","0"," ","m","g","/","d","o","s","e">>],
     [age_min |-> 1200, age_max |-> 20000,
      dose |-> <<"5","0","0",EnDash,"7","5","0"," ","m","g"," ","e","v","e","r","y"," ","1","2","h">>,
      max |-> <<"1","5","0","0"," ","m","g","/","d","a","y">>] >>

\* "levothyroxine"
Rules_levothyroxine ==
  << [age_min |-> 0, age_max |-> 100,
      dose |-> <<"1","0",EnDash,"1","5"," ","m","c","g","/","k","g","/","d","a","y">>,
      max |-> <<"5","0"," ","m","c","g","/","d","a","y">>],
     [age_min |-> 100, age_max |-> 1200,
      dose |-> <<"4",EnDash,"6"," ","m","c","g","/","k","g","/","d","a","y">>,
      max |-> <<"1","0","0"," ","m","c","g","/","d","a","y">>],
     [age_min |-> 1200, age_max |-> 20000,
      dose |-> <<"5","0",EnDash,"2","0","0"," ","m","c","g","/","d","a","y">>,
      max |-> <<"2","0","0"," ","m","c","g","/","d","a","y">>] >>

\* "atorvastatin"
Rules_atorvastatin ==
  << [age_min |-> 1000, age_max |-> 1800,
      dose |-> <<"1","0",EnDash,"2","0"," ","m","g"," ","d","a","i","l","y">>,
      max |-> <<"2","0"," ","m","g","/","d","a","y">>],
     [age_min |-> 1800, age_max |-> 20000,
      dose |-> <<"1","0",EnDash,"8","0"," ","m","g"," ","d","a","i","l","y">>,
      max |-> <<"8","0"," ","m","g","/","d","a","y">>] >>

\* "lisinopril"
Rules_lisinopril ==
  << [age_min |-> 600, age_max |-> 1600,
      dose |-> <<"0",".","0","7"," ","m","g","/","k","g"," ","o","n","c","e"," ","d","a","i","l","y">>,
      max |-> <<"5"," ","m","g","/","d","a","y">>],
     [age_min |-> 1600, age_max |-> 20000,
      dose |-> <<"5",EnDash,"4","0"," ","m","g"," ","o","n","c","e"," ","d","a","i","l","y">>,
      max |-> <<"4","0"," ","m","g","/","d","a","y">>] >>

Name_paracetamol == <<"p","a","r","a","c","e","t","a","m","o","l">>
Name_ibuprofen == <<"i","b","u","p","r","o","f","e","n">>
Name_amoxicillin == <<"a","m","o","x","i","c","i","l","l","i","n">>
Name_azithromycin == <<"a","z","i","t","h","r","o","m","y","c","i","n">>
Name_aspirin == <<"a","s","p","i","r","i","n">>
Name_metformin == <<"m","e","t","f","o","r","m","i","n">>
Name_omeprazole == <<"o","m","e","p","r","a","z","o","l","e">>
Name_prednisone == <<"p","r","e","d","n","i","s","o","n","e">>
Name_ciprofloxacin == <<"c","i","p","r","o","f","l","o","x","a","c","i","n">>
Name_levothyroxine == <<"l","e","v","o","t","h","y","r","o","x","i","n","e">>
Name_atorvastatin == <<"a","t","o","r","v","a","s","t","a","t","i","n">>
Name_lisinopril == <<"l","i","s","i","n","o","p","r","i","l">>

Medications ==
  ( Name_paracetamol   :> Rules_paracetamol )   @@
  ( Name_ibuprofen     :> Rules_ibuprofen )     @@
  ( Name_amoxicillin   :> Rules_amoxicillin )   @@
  ( Name_azithromycin  :> Rules_azithromycin )  @@
  ( Name_aspirin       :> Rules_aspirin )       @@
  ( Name_metformin     :> Rules_metformin )     @@
  ( Name_omeprazole    :> Rules_omeprazole )    @@
  ( Name_prednisone    :> Rules_prednisone )    @@
  ( Name_ciprofloxacin :> Rules_ciprofloxacin ) @@
  ( Name_levothyroxine :> Rules_levothyroxine ) @@
  ( Name_atorvastatin  :> Rules_atorvastatin )  @@
  ( Name_lisinopril    :> Rules_lisinopril )

-----------------------------------------------------------------------------
(* the dosing functions *)

GDayAdjusted == <<" ","g","/","d","a","y"," ","(","a","d","j","u","s","t","e","d",")">>
PerDayAdjusted == <<"/","d","a","y"," ","(","a","d","j","u","s","t","e","d",")">>

\* AdjustMatched with the reductions for age applied one after the other
AdjustMatchedStacking(match, max_str, age, weight) ==
  IF ~match.ok THEN max_str
  ELSE
    LET original_unit == match.unit
        v0   == IF original_unit = Unit_g
                THEN Times(match.low, Frac(1000, 1)) ELSE match.low
        unit == IF original_unit = Unit_g THEN Unit_mg ELSE original_unit
        v65  == IF age >= Years(65) THEN Times(v0, Frac(75, 100)) ELSE v0
        v1   == IF age >= Years(80) THEN Times(v65, Frac(6, 10)) ELSE v65
        value == IF weight < Kg(50) THEN Times(v1, Frac(75, 100)) ELSE v1
    IN  IF original_unit = Unit_g \/ (unit = Unit_mg /\ ~Less(value, Frac(1000, 1)))
        THEN FormatF(Times(value, Frac(1, 1000)), 1) \o GDayAdjusted
        ELSE FormatF(value, 0) \o <<" ">> \o unit \o PerDayAdjusted

\* AdjustMatched that labels the result only when it reduced the value
AdjustMatchedLabelOnReduction(match, max_str, age, weight) ==
  IF ~match.ok THEN max_str
  ELSE
    LET original_unit == match.unit
        v0   == IF original_unit = Unit_g
                THEN Times(match.low, Frac(1000, 1)) ELSE match.low
        unit == IF original_unit = Unit_g THEN Unit_mg ELSE original_unit
        v1   == IF age >= Years(80) THEN Times(v0, Frac(6, 10))
                ELSE IF age >= Years(65) THEN Times(v0, Frac(75, 100))
                ELSE v0
        value == IF weight < Kg(50) THEN Times(v1, Frac(75, 100)) ELSE v1
        label == IF age >= Years(65) \/ weight < Kg(50) THEN 0 ELSE 11
    IN  IF original_unit = Unit_g \/ (unit = Unit_mg /\ ~Less(value, Frac(1000, 1)))
        THEN FormatF(Times(value, Frac(1, 1000)), 1)
               \o SubSeq(GDayAdjusted, 1, Len(GDayAdjusted) - label)
        ELSE FormatF(value, 0) \o <<" ">> \o unit
               \o SubSeq(PerDayAdjusted, 1, Len(PerDayAdjusted) - label)

\* AdjustMatched with the factors of the two age steps exchanged
AdjustMatchedSwappedAgeFactors(match, max_str, age, weight) ==
  IF ~match.ok THEN max_str
  ELSE
    LET original_unit == match.unit
        v0   == IF original_unit = Unit_g
                THEN Times(match.low, Frac(1000, 1)) ELSE match.low
        unit == IF original_unit = Unit_g THEN Unit_mg ELSE original_unit
        v1   == IF age >= Years(80) THEN Times(v0, Frac(75, 100))
                ELSE IF age >= Years(65) THEN Times(v0, Frac(6, 10))
                ELSE v0
        value == IF weight < Kg(50) THEN Times(v1, Frac(75, 100)) ELSE v1
    IN  IF original_unit = Unit_g \/ (unit = Unit_mg /\ ~Less(value, Frac(1000, 1)))
        THEN FormatF(Times(value, Frac(1, 1000)), 1) \o GDayAdjusted
        ELSE FormatF(value, 0) \o <<" ">> \o unit \o PerDayAdjusted

\* adjust_max_for_age_weight from its match on
AdjustMatched(match, max_str, age, weight) ==
  IF ~match.ok THEN max_str
  ELSE
    LET original_unit == match.unit
        v0   == IF original_unit = Unit_g
                THEN Times(match.low, Frac(1000, 1)) ELSE match.low
        unit == IF original_unit = Unit_g THEN Unit_mg ELSE original_unit
        v1   == IF age >= Years(80) THEN Times(v0, Frac(6, 10))
                ELSE IF age >= Years(65) THEN Times(v0, Frac(75, 100))
                ELSE v0
        value == IF weight < Kg(50) THEN Times(v1, Frac(75, 100)) ELSE v1
    IN  IF original_unit = Unit_g \/ (unit = Unit_mg /\ ~Less(value, Frac(1000, 1)))
        THEN FormatF(Times(value, Frac(1, 1000)), 1) \o GDayAdjusted
        ELSE FormatF(value, 0) \o <<" ">> \o unit \o PerDayAdjusted

adjust_max_for_age_weight(max_str, age, weight) ==
  AdjustMatched(Search(MaxPattern, max_str), max_str, age, weight)

\* FixedDose that takes the low bound only above 65
FixedDoseAboveSixtyFive(range_match, dose_str, age) ==
  IF range_match.ok
  THEN
    LET low  == range_match.low
        high == IF range_match.high /= None THEN Val(range_match.high) ELSE low
        unit == range_match.unit
        chosen == IF age > Years(65) THEN low ELSE (low + high) \div 2
        suffix == Slice(dose_str, Find(dose_str, unit) + Len(unit))
    IN  IntToStr(chosen) \o <<" ">> \o unit \o suffix
  ELSE dose_str

\* FixedDose that gives nothing for a text it cannot read
FixedDoseBlankOnMiss(range_match, dose_str, age) ==
  IF range_match.ok
  THEN
    LET low  == range_match.low
        high == IF range_match.high /= None THEN Val(range_match.high) ELSE low
        unit == range_match.unit
        chosen == IF age >= Years(65) THEN low ELSE (low + high) \div 2
        suffix == Slice(dose_str, Find(dose_str, unit) + Len(unit))
    IN  IntToStr(chosen) \o <<" ">> \o unit \o suffix
  ELSE << >>

\* the else branch of calculate_dose from range_match on
FixedDose(range_match, dose_str, age) ==
  IF range_match.ok
  THEN
    LET low  == range_match.low
        high == IF range_match.high /= None THEN Val(range_match.high) ELSE low
        unit == range_match.unit
        chosen == IF age >= Years(65) THEN low ELSE (low + high) \div 2
        suffix == Slice(dose_str, Find(dose_str, unit) + Len(unit))
    IN  IntToStr(chosen) \o <<" ">> \o unit \o suffix
  ELSE dose_str

\* DoseMatched that converts grams per kilogram to milligrams
DoseMatchedConverting(match, dose_str, weight, age) ==
  IF match.ok
  THEN
    LET low  == IF match.unit = Unit_g
                THEN Times(match.low, Frac(1000, 1)) ELSE match.low
        high == IF match.high = None THEN low
                ELSE IF match.unit = Unit_g
                THEN Times(Val(match.high), Frac(1000, 1)) ELSE Val(match.high)
        unit == IF match.unit = Unit_g THEN Unit_mg ELSE match.unit
        dose_low  == Times(low, Frac(weight, Kg(1)))
        dose_high == Times(high, Frac(weight, Kg(1)))
        calc_dose ==
          IF ~Less(dose_low, dose_high) /\ ~Less(dose_high, dose_low)
          THEN FormatF(dose_low, 1) \o <<" ">> \o unit
          ELSE FormatF(dose_low, 1) \o << EnDash >> \o FormatF(dose_high, 1)
                 \o <<" ">> \o unit
        suffix == Slice(dose_str, Find(dose_str, match.unit \o PerKg) + Len(match.unit) + 3)
    IN  calc_dose \o suffix
  ELSE FixedDose(Search(RangePattern, dose_str), dose_str, age)

\* calculate_dose from its first match on
DoseMatched(match, dose_str, weight, age) ==
  IF match.ok
  THEN
    LET low  == match.low
        high == IF match.high /= None THEN Val(match.high) ELSE low
        unit == match.unit
        dose_low  == Times(low, Frac(weight, Kg(1)))
        dose_high == Times(high, Frac(weight, Kg(1)))
        calc_dose ==
          IF ~Less(dose_low, dose_high) /\ ~Less(dose_high, dose_low)
          THEN FormatF(dose_low, 1) \o <<" ">> \o unit
          ELSE FormatF(dose_low, 1) \o << EnDash >> \o FormatF(dose_high, 1)
                 \o <<" ">> \o unit
        suffix == Slice(dose_str, Find(dose_str, unit \o PerKg) + Len(unit) + 3)
    IN  calc_dose \o suffix
  ELSE FixedDose(Search(RangePattern, dose_str), dose_str, age)

calculate_dose(dose_str, weight, age) ==
  DoseMatched(Search(PerKgPattern, dose_str), dose_str, weight, age)

\* estimate_weight_by_age with each breakpoint left in the lower band
EstimateBreakpointBelow(age) ==
  IF age <= 10 THEN Kg(4)
  ELSE IF age <= Years(1) THEN Kg(8)
  ELSE IF age <= Years(5) THEN Kg(15)
  ELSE IF age <= Years(12) THEN Kg(35)
  ELSE Kg(70)

estimate_weight_by_age(age) ==
  IF age < 10 THEN Kg(4)
  ELSE IF age < Years(1) THEN Kg(8)
  ELSE IF age < Years(5) THEN Kg(15)
  ELSE IF age < Years(12) THEN Kg(35)
  ELSE Kg(70)

\* InBand with the lower limit excluded
InBandAboveMin(r, age) == r.age_min < age /\ age < r.age_max

\* InBand with the upper limit included
InBandThroughMax(r, age) == r.age_min <= age /\ age <= r.age_max

\* r["age_min"] <= age_years < r["age_max"]
InBand(r, age) == r.age_min <= age /\ age < r.age_max

\* the scan of the rule list: the first rule whose band holds the age
SelectRule(rules, age) ==
  IF \E i \in 1..Len(rules) : InBand(rules[i], age)
  THEN Some(rules[CHOOSE i \in 1..Len(rules) :
                    /\ InBand(rules[i], age)
                    /\ \A j \in 1..(i - 1) : ~InBand(rules[j], age)])
  ELSE None

\* the weight the dose is computed with
ResolveWeight(age, weight) ==
  IF weight = None THEN estimate_weight_by_age(age) ELSE Val(weight)

\* recommend_dose over the table `table`: what it returns (ret), the helpers
\* it called on the way (called) and the exception that escaped it (raised)
recommend_dose(table, name, age, weight) ==
  LET key   == Lower(name)
      rules == IF key \in DOMAIN table THEN table[key] ELSE << >>
      rule  == SelectRule(rules, age)
      w     == ResolveWeight(age, weight)
  IN  IF rules = << >>
      THEN [ret |-> [error |-> [msg |-> "No dosage data available", drug |-> name]],
            called |-> << >>, raised |-> ""]
      ELSE IF rule = None
      THEN [ret |-> [error |-> [msg |-> "No dosing rule found", drug |-> name,
                                age |-> age]],
            called |-> << >>, raised |-> ""]
      ELSE [ret |-> [drug        |-> name,
                     age_years   |-> age,
                     weight_kg   |-> w,
                     dosage      |-> calculate_dose(Val(rule).dose, w, age),
                     max_per_day |-> adjust_max_for_age_weight(Val(rule).max, age, w)],
            called |-> (IF weight = None THEN <<"estimate_weight_by_age">> ELSE << >>)
                         \o <<"calculate_dose", "adjust_max_for_age_weight">>,
            raised |-> ""]

-----------------------------------------------------------------------------
(* fuzzy scoring: rapidfuzz fuzz.token_sort_ratio and process.extractOne *)

\* code point order of the characters used
CodeOrder == <<" ">> \o DigitChars \o UpperChars \o LowerChars
Ord(c) == IndexIn(c, CodeOrder)

\* s < t as Python compares str
RECURSIVE StrLess(_, _)
StrLess(s, t) ==
  IF t = << >> THEN FALSE
  ELSE IF s = << >> THEN TRUE
  ELSE IF Head(s) = Head(t) THEN StrLess(Tail(s), Tail(t))
  ELSE Ord(Head(s)) < Ord(Head(t))

\* str.split(): the maximal runs of non-whitespace
RECURSIVE SplitFrom(_, _, _)
SplitFrom(s, i, word) ==
  IF i > Len(s) THEN (IF word = << >> THEN << >> ELSE << word >>)
  ELSE IF IsSpace(s[i])
       THEN (IF word = << >> THEN << >> ELSE << word >>) \o SplitFrom(s, i + 1, << >>)
       ELSE SplitFrom(s, i + 1, Append(word, s[i]))

Split(s) == SplitFrom(s, 1, << >>)

\* sorted(tokens)
RECURSIVE InsertSorted(_, _)
InsertSorted(w, ws) ==
  IF ws = << >> THEN << w >>
  ELSE IF StrLess(w, Head(ws)) THEN << w >> \o ws
  ELSE << Head(ws) >> \o InsertSorted(w, Tail(ws))

RECURSIVE Sorted(_)
Sorted(ws) == IF ws = << >> THEN << >> ELSE InsertSorted(Head(ws), Sorted(Tail(ws)))

\* " ".join(words)
RECURSIVE Join(_)
Join(ws) ==
  IF ws = << >> THEN << >>
  ELSE IF Len(ws) = 1 THEN Head(ws)
  ELSE Head(ws) \o <<" ">> \o Join(Tail(ws))

TokenSort(s) == Join(Sorted(Split(s)))

Max(a, b) == IF a >= b THEN a ELSE b

\* one row of the longest-common-subsequence table
RECURSIVE LcsRow(_, _, _, _)
LcsRow(prev, c, b, row) ==
  LET j == Len(row) + 1
  IN  IF j > Len(b) THEN row
      ELSE LcsRow(prev, c, b,
             Append(row,
               IF c = b[j]
               THEN (IF j = 1 THEN 0 ELSE prev[j - 1]) + 1
               ELSE Max(prev[j], IF j = 1 THEN 0 ELSE row[j - 1])))

RECURSIVE LcsRows(_, _, _, _)
LcsRows(a, b, i, prev) ==
  IF i > Len(a) THEN prev ELSE LcsRows(a, b, i + 1, LcsRow(prev, a[i], b, << >>))

Lcs(a, b) ==
  IF a = << >> \/ b = << >> THEN 0
  ELSE LcsRows(a, b, 1, [j \in 1..Len(b) |-> 0])[Len(b)]

\* Indel similarity of a and b on the scale 0..100
Ratio(a, b) ==
  IF Len(a) + Len(b) = 0 THEN Frac(100, 1)
  ELSE Frac(200 * Lcs(a, b), Len(a) + Len(b))

token_sort_ratio(s1, s2) == Ratio(TokenSort(s1), TokenSort(s2))

\* the choices extractOne can return for `query`: None when there is no
\* choice, else a choice no other choice outscores, with its score (which
\* of several equally good choices comes first is the order of a set)
ExtractOne(query, choices) ==
  LET scored == { << c, token_sort_ratio(query, c) >> : c \in choices }
  IN  IF choices = {} THEN { None }
      ELSE { Some(p) : p \in { p \in scored : \A o \in scored : ~Less(p[2], o[2]) } }

-----------------------------------------------------------------------------
(* the local interaction matcher *)

\* str(r.get("drug_a", "")).lower() and its drug_b twin
RecA(r) == Lower(r.drug_a)
RecB(r) == Lower(r.drug_b)

\* db_list: the non-empty lowercased names of the records
Vocabulary(records) ==
  { n \in { RecA(records[k]) : k \in 1..Len(records) }
            \cup { RecB(records[k]) : k \in 1..Len(records) } : n /= << >> }

\* Accepts with the threshold itself rejected
AcceptsAbove(res, threshold) ==
  res /= None /\ Less(Frac(threshold, 1), Val(res)[2])

\* res and res[1] >= fuzz_threshold
Accepts(res, threshold) ==
  res /= None /\ ~Less(Val(res)[2], Frac(threshold, 1))

\* MapEntry that keeps the best name whatever its score
MapEntryAnyScore(res, threshold) ==
  IF res /= None THEN Some(Val(res)[1]) ELSE None

\* mapping[d] for the outcome res of extractOne
MapEntry(res, threshold) ==
  IF Accepts(res, threshold) THEN Some(Val(res)[1]) ELSE None

\* RecordMatches satisfied by one matching name per column
RecordMatchesOneName(r, ma, mb) ==
  \/ RecA(r) = ma \/ RecB(r) = mb
  \/ RecA(r) = mb \/ RecB(r) = ma

\* RecordMatches in the column order of the record only
RecordMatchesInOrder(r, ma, mb) == RecA(r) = ma /\ RecB(r) = mb

\* (ra == ma and rb == mb) or (ra == mb and rb == ma)
RecordMatches(r, ma, mb) ==
  \/ RecA(r) = ma /\ RecB(r) = mb
  \/ RecA(r) = mb /\ RecB(r) = ma

\* the pairs of positions in both orders
RECURSIVE CombinationsBothOrders(_, _, _)
CombinationsBothOrders(n, i, j) ==
  IF i > n THEN << >>
  ELSE IF j > n THEN CombinationsBothOrders(n, i + 1, 1)
  ELSE (IF i = j THEN << >> ELSE << << i, j >> >>) \o CombinationsBothOrders(n, i, j + 1)

\* itertools.combinations(range(1, n + 1), 2), in order
RECURSIVE Combinations(_, _, _)
Combinations(n, i, j) ==
  IF i >= n THEN << >>
  ELSE IF j > n THEN Combinations(n, i + 1, i + 2)
  ELSE << << i, j >> >> \o Combinations(n, i, j + 1)

\* not ma or not mb
Skips(ma, mb) == ma = None \/ mb = None \/ Val(ma) = << >> \/ Val(mb) = << >>

\* PairResults that reports a pair once however many records hold it
PairResultsOncePerPair(a, b, ma, mb, records) ==
  IF Skips(ma, mb) THEN << >>
  ELSE
    LET hits == SelectSeq(records, LAMBDA r : RecordMatches(r, Val(ma), Val(mb)))
    IN  [k \in 1..(IF hits = << >> THEN 0 ELSE 1) |->
           [drug_a |-> a, drug_b |-> b,
            matched_a |-> Val(ma), matched_b |-> Val(mb),
            severity |-> hits[k].severity,
            description |-> hits[k].description,
            source |-> IF hits[k].source = None THEN "local" ELSE Val(hits[k].source)]]

\* PairResults that reports as matched_b the second column of the record
PairResultsNamingRecordColumn(a, b, ma, mb, records) ==
  IF Skips(ma, mb) THEN << >>
  ELSE
    LET hits == SelectSeq(records, LAMBDA r : RecordMatches(r, Val(ma), Val(mb)))
    IN  [k \in 1..Len(hits) |->
           [drug_a |-> a, drug_b |-> b,
            matched_a |-> Val(ma), matched_b |-> RecB(hits[k]),
            severity |-> hits[k].severity,
            description |-> hits[k].description,
            source |-> IF hits[k].source = None THEN "local" ELSE Val(hits[k].source)]]

\* what the record loop appends for the input pair (a, b)
PairResults(a, b, ma, mb, records) ==
  IF Skips(ma, mb) THEN << >>
  ELSE
    LET hits == SelectSeq(records, LAMBDA r : RecordMatches(r, Val(ma), Val(mb)))
    IN  [k \in 1..Len(hits) |->
           [drug_a |-> a, drug_b |-> b,
            matched_a |-> Val(ma), matched_b |-> Val(mb),
            severity |-> hits[k].severity,
            description |-> hits[k].description,
            source |-> IF hits[k].source = None THEN "local" ELSE Val(hits[k].source)]]

RECURSIVE Flatten(_)
Flatten(ss) == IF ss = << >> THEN << >> ELSE Head(ss) \o Flatten(Tail(ss))

\* the list find_ddi_local returns once `map` is built
FoundList(names, records, map) ==
  LET pairs == Combinations(Len(names), 1, 2)
  IN  Flatten([p \in 1..Len(pairs) |->
                 PairResults(names[pairs[p][1]], names[pairs[p][2]],
                             map[names[pairs[p][1]]], map[names[pairs[p][2]]],
                             records)])

\* the mappings find_ddi_local can build: one outcome of extractOne per
\* input, the same for inputs that are the same query
Mappings(names, records, threshold) ==
  LET keys    == { names[i] : i \in 1..Len(names) }
      queries == { Lower(d) : d \in keys }
      vocab   == Vocabulary(records)
      entries == UNION { { << q, MapEntry(res, threshold) >> : res \in ExtractOne(q, vocab) } :
                         q \in queries }
      values  == { e[2] : e \in entries }
  IN  { [d \in keys |-> pick[Lower(d)]] :
          pick \in { f \in [queries -> values] : \A q \in queries : << q, f[q] >> \in entries } }

\* find_ddi_local reading res[1] of the None that extractOne returns for an
\* empty vocabulary
find_ddi_local_unguarded(names, records, threshold) ==
  IF Vocabulary(records) = {} /\ names /= << >>
  THEN { [raised |-> "TypeError", mapping |-> << >>, ret |-> << >>] }
  ELSE { [raised |-> "", mapping |-> map, ret |-> FoundList(names, records, map)] :
           map \in Mappings(names, records, threshold) }

\* find_ddi_local(names, records, threshold): every outcome it can have,
\* as the mapping it built, the list it returned and the exception that
\* escaped it
find_ddi_local(names, records, threshold) ==
  { [raised |-> "", mapping |-> map, ret |-> FoundList(names, records, map)] :
      map \in Mappings(names, records, threshold) }

-----------------------------------------------------------------------------
(* inputs *)

Name_Aspirin == <<"A","s","p","i","r","i","n">>
Name_IBUPROFEN == <<"I","B","U","P","R","O","F","E","N">>
Name_unknown == <<"x","y","z">>

DrugInputs == DOMAIN Medications \cup { Name_Aspirin, Name_IBUPROFEN, Name_unknown, << >> }

\* ages around every band limit of the table and every breakpoint of the
\* estimator and the adjuster, in hundredths of a year
AgeInputs ==
  { 0, 5, 9, 10, 49, 50, 99, 100, 499, 500, 599, 600, 999, 1000, 1199, 1200,
    1599, 1600, 1799, 1800, 3000, 6499, 6500, 7999, 8000, 19999, 20000, 25000 }

\* weights in tenths of a kilogram, and None
WeightInputs == { None } \cup { Some(w) : w \in { -30, 0, 200, 499, 500, 700 } }

-----------------------------------------------------------------------------
(* dosage calculator: the request and the two ways it is served *)

ClearResult ==
  /\ call' = None
  /\ rec' = None
  /\ trace' = << >>
  /\ raised' = ""

SelectDrug(d) ==
  /\ d /= drug_name
  /\ drug_name' = d
  /\ ClearResult
  /\ UNCHANGED << medications, age_years, weight_kg, probe, ddiVars, remote, callers, session_state, assistant, direct >>

SetAge(a) ==
  /\ a /= age_years
  /\ age_years' = a
  /\ ClearResult
  /\ UNCHANGED << medications, drug_name, weight_kg, probe, ddiVars, remote, callers, session_state, assistant, direct >>

SetWeight(w) ==
  /\ w /= weight_kg
  /\ weight_kg' = w
  /\ ClearResult
  /\ UNCHANGED << medications, drug_name, age_years, probe, ddiVars, remote, callers, session_state, assistant, direct >>

\* the arguments whose repeated call the history follows
ProbeCall == [drug_name |-> Name_paracetamol, age_years |-> Years(30), weight_kg |-> None]

\* the history after a call with the arguments `c` returned `r`: stage 1 the
\* first call with ProbeCall's arguments (its result kept), stage 2 a call
\* with other arguments after it, stage 3 ProbeCall's arguments again
Observe(c, r) ==
  IF probe.stage = 0 /\ c = ProbeCall THEN [stage |-> 1, rec |-> r]
  ELSE IF probe.stage = 1 /\ c /= ProbeCall THEN [probe EXCEPT !.stage = 2]
  ELSE IF probe.stage = 2 /\ c = ProbeCall THEN [probe EXCEPT !.stage = 3]
  ELSE probe

\* the call c has come back with the outcome r
Returned(c, r) ==
  /\ call' = Some(c)
  /\ rec' = IF r.raised = "" THEN Some(r.ret) ELSE None
  /\ trace' = r.called
  /\ raised' = r.raised
  /\ probe' = Observe(c, rec')
  /\ UNCHANGED << drug_name, age_years, weight_kg, ddiVars, remote, callers, session_state, assistant, direct >>

\* the table with the first rule of `key` used up
Consumed(table, key) ==
  IF key \in DOMAIN table /\ Len(table[key]) > 1
  THEN [table EXCEPT ![key] = Tail(@)]
  ELSE table

\* Invoke with a call that uses up the rule it applied
InvokeConsumingRule(name, age, w) ==
  /\ Returned([drug_name |-> name, age_years |-> age, weight_kg |-> w],
              recommend_dose(medications, name, age, w))
  /\ medications' = Consumed(medications, Lower(name))

\* a call of recommend_dose(name, age, w)
Invoke(name, age, w) ==
  /\ Returned([drug_name |-> name, age_years |-> age, weight_kg |-> w],
              recommend_dose(medications, name, age, w))
  /\ UNCHANGED medications

\* a caller of the core invokes recommend_dose with the request as it stands
CallRecommendDose ==
  /\ Invoke(drug_name, age_years, weight_kg)

\* the "Calculate Dosage" button: the drug comes from the select box of the
\* table's keys, the weight from a number input with minimum 0
CalculateDoseBtn ==
  /\ drug_name \in DOMAIN medications
  /\ weight_kg /= None
  /\ Val(weight_kg) >= 0
  /\ Invoke(drug_name, age_years,
            IF Val(weight_kg) > 0 THEN weight_kg ELSE None)

-----------------------------------------------------------------------------
(* inputs of the interaction matcher *)

Name_warfarin  == <<"w","a","r","f","a","r","i","n">>
Name_Warfarin  == <<"W","a","r","f","a","r","i","n">>
Name_asperine  == <<"a","s","p","e","r","i","n","e">>
Name_vitamin_k == <<"v","i","t","a","m","i","n"," ","k">>
Name_k_vitamin == <<"k"," ","v","i","t","a","m","i","n">>

\* what callers type: a capitalised name, an exact name, a misspelling that
\* scores exactly 80 against "aspirin" and a name with its words in another
\* order
DrugNameInputs == { Name_Warfarin, Name_aspirin, Name_asperine, Name_k_vitamin }

\* rows of local_ddi.csv: drug_a, drug_b, severity, description, source
\* (None when the row has no source key)
Row_warfarin_aspirin ==
  [drug_a |-> Name_warfarin, drug_b |-> Name_aspirin, severity |-> "High",
   description |-> "bleeding risk", source |-> Some("DrugBank")]
Row_Aspirin_Warfarin ==
  [drug_a |-> Name_Aspirin, drug_b |-> Name_Warfarin, severity |-> "Medium",
   description |-> "monitor INR", source |-> None]
Row_vitamin_k_warfarin ==
  [drug_a |-> Name_vitamin_k, drug_b |-> Name_warfarin, severity |-> "Low",
   description |-> "reduced effect", source |-> Some("local")]
Row_blank_aspirin ==
  [drug_a |-> << >>, drug_b |-> Name_aspirin, severity |-> "Low",
   description |-> "incomplete row", source |-> None]

\* the record lists tried: none, each row alone, the same pair twice (in the
\* same and in the other column order), and lists of unrelated rows
RecordInputs ==
  { << >>,
    << Row_warfarin_aspirin >>,
    << Row_Aspirin_Warfarin >>,
    << Row_vitamin_k_warfarin >>,
    << Row_blank_aspirin >>,
    << Row_warfarin_aspirin, Row_warfarin_aspirin >>,
    << Row_warfarin_aspirin, Row_Aspirin_Warfarin >>,
    << Row_Aspirin_Warfarin, Row_vitamin_k_warfarin >>,
    << Row_blank_aspirin, Row_vitamin_k_warfarin >>,
    << Row_vitamin_k_warfarin, Row_blank_aspirin, Row_warfarin_aspirin >>,
    << Row_Aspirin_Warfarin, Row_warfarin_aspirin, Row_vitamin_k_warfarin >> }

ThresholdInputs == { 85, 80 }

MaxDrugs == 3

-----------------------------------------------------------------------------
(* interaction matcher: its inputs, the data file, and the calls *)

\* nothing normalized, nothing sent to the remote service, nothing returned
NoRemote == [norm_map |-> << >>, rxcuis |-> << >>, sent |-> FALSE, interactions |-> << >>]

ClearFound ==
  /\ ddi_call' = ""
  /\ ddi_file' = ""
  /\ mapping' = << >>
  /\ found' = None
  /\ shown' = ""
  /\ raised' = ""
  /\ remote' = NoRemote

AppendDrug(d) ==
  /\ Len(drug_names) < MaxDrugs
  /\ drug_names' = Append(drug_names, d)
  /\ ClearFound
  /\ UNCHANGED << medications, doseVars, probe, local_records, fuzz_threshold, callers, session_state, assistant, direct >>

ClearDrugs ==
  /\ drug_names /= << >>
  /\ drug_names' = << >>
  /\ ClearFound
  /\ UNCHANGED << medications, doseVars, probe, local_records, fuzz_threshold, callers, session_state, assistant, direct >>

SetRecords(rows) ==
  /\ rows /= local_records
  /\ local_records' = rows
  /\ ClearFound
  /\ UNCHANGED << medications, doseVars, probe, drug_names, fuzz_threshold, callers, session_state, assistant, direct >>

SetThreshold(t) ==
  /\ t /= fuzz_threshold
  /\ fuzz_threshold' = t
  /\ ClearFound
  /\ UNCHANGED << medications, doseVars, probe, drug_names, local_records, callers, session_state, assistant, direct >>

\* what str() gives for the NaN pd.read_csv puts in place of a blank cell
Name_nan == <<"n","a","n">>

\* df.to_dict(orient="records") for the parsed rows: a blank drug cell is
\* NaN, and so is the source cell of a row without one when the file has a
\* source column; without that column no record has the key
CsvRecords(rows) ==
  LET has_source == \E k \in 1..Len(rows) : rows[k].source /= None
      Cell(s) == IF s = << >> THEN Name_nan ELSE s
  IN  [k \in 1..Len(rows) |->
         [rows[k] EXCEPT !.drug_a = Cell(@),
                         !.drug_b = Cell(@),
                         !.source = IF @ = None /\ has_source THEN Some("nan") ELSE @]]

\* load_local_ddi for a file in state `file` holding `rows`: the list it
\* returns, or the exception pd.read_csv raises on content it cannot parse
load_local_ddi(file, rows) ==
  IF file = "missing" THEN [raised |-> "", ret |-> << >>]
  ELSE IF file = "unparseable" THEN [raised |-> "pandas.errors.ParserError", ret |-> << >>]
  ELSE [raised |-> "", ret |-> CsvRecords(rows)]

\* a caller invokes find_ddi_local with the inputs as they stand (a call
\* repeated on unchanged inputs reaches the same states and is not explored)
CallFindDdiLocal ==
  /\ ddi_call = ""
  /\ \E out \in find_ddi_local(drug_names, local_records, fuzz_threshold) :
       /\ raised' = out.raised
       /\ mapping' = out.mapping
       /\ found' = IF out.raised = "" THEN Some(out.ret) ELSE None
  /\ ddi_call' = "find_ddi_local"
  /\ UNCHANGED << medications, doseVars, probe, ddi_file, shown, drug_names, local_records, remote, callers, session_state, assistant, direct,
                  fuzz_threshold >>

\* the states local_ddi.csv can be in when it is read
FileStates == { "missing", "unparseable", "rows" }

\* the drug names in the order of their first occurrence: the keys of
\* norm_map in dict order
RECURSIVE Distinct(_)
Distinct(names) ==
  IF names = << >> THEN << >>
  ELSE LET rest == Distinct(SubSeq(names, 1, Len(names) - 1))
           last == names[Len(names)]
       IN  IF \E k \in 1..Len(rest) : rest[k] = last THEN rest ELSE Append(rest, last)

\* what RxNorm can do with a name: answer with identifiers, answer without
\* any, or fail (HTTP error, timeout, malformed body)
RxNormAnswers == { "ids", "no_ids", "error" }

\* str(ids[0]) for the name
RxCui(name) == << "rxcui" >> \o name

\* normalize_to_rxcui that takes the name itself for the identifier when
\* RxNorm gives none
NormalizeFallingBack(name, answer) ==
  IF answer = "ids" THEN Some([rxcui |-> RxCui(name)]) ELSE Some([rxcui |-> name])

\* normalize_to_rxcui(name) when RxNorm gives `answer`: the dict with the
\* identifier, or None (every exception is caught)
normalize_to_rxcui(name, answer) ==
  IF answer = "ids" THEN Some([rxcui |-> RxCui(name)]) ELSE None

\* what the DrugBank endpoint can give: a failure, or a body with the
\* interactions it lists
Interaction_remote ==
  [drug_a |-> "warfarin", drug_b |-> "aspirin", severity |-> "High",
   description |-> "increased bleeding"]
DrugBankResponses ==
  { [ok |-> FALSE, interactions |-> << >>],
    [ok |-> TRUE, interactions |-> << >>],
    [ok |-> TRUE, interactions |-> << Interaction_remote >>] }

\* check_interactions_drugbank(rxcui_list) with the key configured or not
\* and the endpoint answering `response`
check_interactions_drugbank(rxcui_list, api_key, response) ==
  IF ~api_key THEN << >>
  ELSE IF ~response.ok THEN << >>
  ELSE [k \in 1..Len(response.interactions) |->
          [drug_a |-> response.interactions[k].drug_a,
           drug_b |-> response.interactions[k].drug_b,
           severity |-> response.interactions[k].severity,
           description |-> response.interactions[k].description,
           source |-> "DrugBank"]]

\* the services as one check finds them: RxNorm's answer for each name, the
\* DrugBank key, DrugBank's response
Environments(names) ==
  [rxnorm : [{ names[k] : k \in 1..Len(names) } -> RxNormAnswers],
   api_key : BOOLEAN,
   response : DrugBankResponses]

\* no service reachable and no key configured
Offline(names) ==
  [rxnorm |-> [d \in { names[k] : k \in 1..Len(names) } |-> "error"],
   api_key |-> FALSE,
   response |-> [ok |-> FALSE, interactions |-> << >>]]

\* the remote part of the check: norm_map, the identifiers of the
\* normalized drugs, and the list check_interactions_drugbank returns for
\* them (not called without identifiers); env keeps the environment met
RemoteCheck(names, env) ==
  LET keys     == Distinct(names)
      norm_map == [d \in DOMAIN env.rxnorm |-> normalize_to_rxcui(d, env.rxnorm[d])]
      hits     == SelectSeq(keys, LAMBDA d : norm_map[d] /= None)
      rxcuis   == [k \in 1..Len(hits) |-> Val(norm_map[hits[k]]).rxcui]
  IN  [env |-> env,
       norm_map |-> norm_map,
       rxcuis |-> rxcuis,
       sent |-> rxcuis /= << >>,
       interactions |-> IF rxcuis /= << >>
                        THEN check_interactions_drugbank(rxcuis, env.api_key, env.response)
                        ELSE << >>]

\* the else branch of the check: load the local file, found in state
\* `file`, and look the drug list up in it with the default threshold
LocalLookup(loaded) ==
  IF loaded.raised /= ""
  THEN /\ raised' = loaded.raised
       /\ mapping' = << >>
       /\ found' = None
       /\ shown' = ""
       /\ UNCHANGED fuzz_threshold
  ELSE IF loaded.ret /= << >>
  THEN /\ fuzz_threshold' = 85
       /\ \E out \in find_ddi_local(drug_names, loaded.ret, 85) :
            /\ raised' = out.raised
            /\ mapping' = out.mapping
            /\ found' = IF out.raised = "" THEN Some(out.ret) ELSE None
            /\ shown' = IF out.raised /= "" THEN ""
                        ELSE IF out.ret /= << >>
                        THEN "Local Database Interactions"
                        ELSE "No additional interactions found"
  ELSE /\ raised' = ""
       /\ mapping' = << >>
       /\ found' = None
       /\ shown' = "Local DDI database not available"
       /\ UNCHANGED fuzz_threshold

\* Checked that looks the local file up whatever the remote list holds
CheckedLocalToo(checked, file) ==
  /\ remote' = checked
  /\ ddi_call' = "main"
  /\ ddi_file' = file
  /\ LocalLookup(load_local_ddi(file, local_records))
  /\ UNCHANGED << medications, doseVars, probe, drug_names, local_records, callers, session_state, assistant, direct >>

\* the "Check Interactions" button with a non-empty drug list, from the
\* normalization on
Checked(checked, file) ==
  /\ remote' = checked
  /\ ddi_call' = "main"
  /\ IF checked.interactions /= << >>
     THEN /\ shown' = "Drug Interactions Found"
          /\ ddi_file' = ""
          /\ raised' = ""
          /\ mapping' = << >>
          /\ found' = None
          /\ UNCHANGED fuzz_threshold
     ELSE /\ ddi_file' = file
          /\ LocalLookup(load_local_ddi(file, local_records))
  /\ UNCHANGED << medications, doseVars, probe, drug_names, local_records, callers, session_state, assistant, direct >>

\* the "Check Interactions" button in the environment env, local_ddi.csv
\* being in state `file`
CheckInteractions(env, file) ==
  /\ ddi_call = ""
  /\ drug_names /= << >>
  /\ Checked(RemoteCheck(drug_names, env), file)

\* the check when no remote service answers: nothing is normalized, the
\* remote list is empty and the local file is looked up
LocalFallback(file) == CheckInteractions(Offline(drug_names), file)

-----------------------------------------------------------------------------
(* several callers of the core at once *)

NumCallers == 2

\* a caller with no call in progress
Idle == [pc |-> "idle"]

\* the calls the callers make
ConcurrentCalls ==
  { [op |-> "recommend_dose", drug_name |-> Name_paracetamol, age_years |-> Years(30),
     weight_kg |-> None],
    [op |-> "recommend_dose", drug_name |-> Name_Aspirin, age_years |-> Years(16),
     weight_kg |-> Some(Kg(50))],
    [op |-> "recommend_dose", drug_name |-> Name_ibuprofen, age_years |-> 5,
     weight_kg |-> None],
    [op |-> "recommend_dose", drug_name |-> Name_unknown, age_years |-> Years(30),
     weight_kg |-> None],
    [op |-> "find_ddi_local", drug_names |-> << Name_Warfarin, Name_aspirin >>],
    [op |-> "find_ddi_local",
     drug_names |-> << Name_aspirin, Name_asperine, Name_Warfarin >>] }

\* the record lists the callers share
SharedRecordInputs ==
  { << Row_warfarin_aspirin >>,
    << Row_Aspirin_Warfarin, Row_warfarin_aspirin, Row_vitamin_k_warfarin >> }

otherVars == << doseVars, probe, raised, ddi_file, drug_names, fuzz_threshold,
                mapping, found, shown, ddi_call, remote, direct,
                session_state, assistant >>

\* another record list is supplied while no call is running
SupplyRecords(rows) ==
  /\ \A c \in 1..NumCallers : callers[c] = Idle
  /\ rows /= local_records
  /\ local_records' = rows
  /\ UNCHANGED << medications, callers, session_state, assistant, direct, otherVars >>

\* caller c enters recommend_dose or find_ddi_local: the arguments are
\* bound, nothing is read yet (records: the list as it was passed)
Begin(c, args) ==
  /\ callers[c] = Idle
  /\ callers' = [callers EXCEPT ![c] = [pc |-> "entered", args |-> args,
                                          records |-> local_records]]
  /\ UNCHANGED << medications, local_records, otherVars >>

\* the part of the table recommend_dose reads for `key`
Looked(table, key) ==
  IF key \in DOMAIN table THEN key :> table[key] ELSE << >>

\* LookUpRules by a call that uses up the first rule it found
LookUpRulesConsuming(c) ==
  /\ callers[c].pc = "entered"
  /\ callers[c].args.op = "recommend_dose"
  /\ callers' = [callers EXCEPT ![c] =
       [@ EXCEPT !.pc = "looked_up"] @@
       [view |-> Looked(medications, Lower(callers[c].args.drug_name))]]
  /\ medications' = Consumed(medications, Lower(callers[c].args.drug_name))
  /\ UNCHANGED << local_records, otherVars >>

\* recommend_dose, caller c: rules = medications.get(key)
LookUpRules(c) ==
  /\ callers[c].pc = "entered"
  /\ callers[c].args.op = "recommend_dose"
  /\ callers' = [callers EXCEPT ![c] =
       [@ EXCEPT !.pc = "looked_up"] @@
       [view |-> Looked(medications, Lower(callers[c].args.drug_name))]]
  /\ UNCHANGED << medications, local_records, otherVars >>

\* recommend_dose, caller c: from the rule scan to the return
ReturnDose(c) ==
  /\ callers[c].pc = "looked_up"
  /\ callers' = [callers EXCEPT ![c] =
       [pc |-> "returned", args |-> @.args, records |-> @.records,
        ret |-> recommend_dose(@.view, @.args.drug_name, @.args.age_years,
                               @.args.weight_kg).ret]]
  /\ UNCHANGED << medications, local_records, otherVars >>

\* find_ddi_local, caller c: the vocabulary and the mapping, read from the
\* records
MapNames(c) ==
  /\ callers[c].pc = "entered"
  /\ callers[c].args.op = "find_ddi_local"
  /\ \E map \in Mappings(callers[c].args.drug_names, local_records, fuzz_threshold) :
       callers' = [callers EXCEPT ![c] = [@ EXCEPT !.pc = "mapped"] @@ [mapping |-> map]]
  /\ UNCHANGED << medications, local_records, otherVars >>

\* find_ddi_local, caller c: the scan of the records for every pair, and
\* the return
ScanRecords(c) ==
  /\ callers[c].pc = "mapped"
  /\ callers' = [callers EXCEPT ![c] =
       [pc |-> "returned", args |-> @.args, records |-> @.records,
        ret |-> FoundList(@.args.drug_names, local_records, @.mapping)]]
  /\ UNCHANGED << medications, local_records, otherVars >>

\* caller c is done with the value returned
Forget(c) ==
  /\ callers[c].pc = "returned"
  /\ callers' = [callers EXCEPT ![c] = Idle]
  /\ UNCHANGED << medications, local_records, otherVars >>

-----------------------------------------------------------------------------
(* specifications *)

-----------------------------------------------------------------------------
(* the dosing helpers called by themselves *)

\* a number of a rule text: n/d with d 1 or 10, written as an integer or with
\* one decimal
Num(n, d) == [n |-> n, d |-> d]
NumberText(x) ==
  IF x.d = 1 THEN NatToStr(x.n)
  ELSE NatToStr(x.n \div 10) \o <<".">> \o NatToStr(x.n % 10)

\* a rule text written out from its parts: low[-high] unit tail
Written(f) ==
  NumberText(f.low)
    \o (IF f.high = None THEN << >> ELSE << EnDash >> \o NumberText(Val(f.high)))
    \o f.space \o f.unit \o f.tail

Tail_every_6h == <<" ","e","v","e","r","y"," ","6","h">>
Tail_per_day == <<"/","d","a","y">>
Tail_daily == <<" ","o","n","c","e"," ","d","a","i","l","y">>
Tail_per_course == <<"/","c","o","u","r","s","e">>

UnitInputs == { Units[k] : k \in 1..Len(Units) }

\* dose texts per kilogram, as the rules of the table write them
PerKgForms ==
  [ low : { Num(10, 1), Num(5, 10), Num(25, 10) },
    high : { None, Some(Num(15, 1)), Some(Num(25, 10)) },
    space : { << >>, <<" ">> },
    unit : UnitInputs,
    tail : { PerKg, PerKg \o Tail_every_6h, PerKg \o Tail_per_day } ]

\* dose texts with absolute amounts
AbsoluteForms ==
  [ low : { Num(500, 1), Num(75, 1), Num(5, 1) },
    high : { None, Some(Num(1000, 1)), Some(Num(8, 1)) },
    space : { << >>, <<" ">> },
    unit : UnitInputs,
    tail : { << >>, Tail_every_6h, Tail_daily } ]

\* maximum texts
MaxForms ==
  [ low : { Num(4, 1), Num(25, 10), Num(15, 10), Num(10, 1), Num(500, 1),
            Num(1000, 1), Num(1200, 1), Num(2000, 1) },
    high : { None },
    space : { << >>, <<" ">> },
    unit : UnitInputs,
    tail : { << >>, Tail_per_day, Tail_per_course } ]

\* texts without an amount the patterns know
OtherTexts ==
  { << >>, <<"a","s"," ","d","i","r","e","c","t","e","d">>, <<"o","n","c","e"," ","d","a","i","l","y">>, <<"5"," ","m","l">>, <<"m","g"," ","t","w","i","c","e">>, <<"2"," ","t","a","b","l","e","t","s">>, <<"1","0"," ","u","n","i","t","s","/","k","g">> }

DoseTextInputs ==
  { Written(f) : f \in PerKgForms } \cup { Written(f) : f \in AbsoluteForms }
    \cup OtherTexts

\* the maximum texts of the table
TableMaxTexts ==
  UNION { { Medications[key][i].max : i \in 1..Len(Medications[key]) } :
            key \in DOMAIN Medications }

MaxTextInputs == { Written(f) : f \in MaxForms } \cup OtherTexts \cup TableMaxTexts

\* ages in hundredths of a year, weights in tenths of a kilogram
HelperAges ==
  { 0, 5, 9, 10, 50, 99, 100, 300, 499, 500, 800, 1199, 1200, 3000, 4000,
    6499, 6500, 7000, 7999, 8000, 8500 }
DoseAges == { 500, 3000, 6499, 6500, 7000 }
MaxAges == { 3000, 6499, 6500, 7999, 8000, 8500 }
HelperWeights == { 0, 200, 400, 499, 500, 700 }

\* a helper is called while no result of one is held
HelperCalled(record) ==
  /\ direct = None
  /\ direct' = Some(record)
  /\ UNCHANGED << medications, doseVars, probe, raised, ddiVars, remote, callers, session_state, assistant >>

\* the caller drops the result
DropResult ==
  /\ direct /= None
  /\ direct' = None
  /\ UNCHANGED << medications, doseVars, probe, raised, ddiVars, remote, callers, session_state, assistant >>

CallEstimateWeight ==
  \E age \in HelperAges :
    HelperCalled([fn |-> "estimate_weight_by_age", age_years |-> age,
                  ret |-> estimate_weight_by_age(age)])

CallCalculateDose ==
  \E dose_str \in DoseTextInputs : \E weight \in HelperWeights : \E age \in DoseAges :
    HelperCalled([fn |-> "calculate_dose", dose_str |-> dose_str,
                  weight |-> weight, age |-> age,
                  ret |-> calculate_dose(dose_str, weight, age)])

CallAdjustMax ==
  \E max_str \in MaxTextInputs : \E age \in MaxAges : \E weight \in HelperWeights :
    HelperCalled([fn |-> "adjust_max_for_age_weight", max_str |-> max_str,
                  age |-> age, weight |-> weight,
                  ret |-> adjust_max_for_age_weight(max_str, age, weight)])

-----------------------------------------------------------------------------
(* the AI assistant: session state, context and prompt *)

\* st.session_state before main has run, a key that is absent being None
NoSession == [conversation_history |-> None, ai_context |-> None]

\* {'current_medications': [], 'patient_info': {}, 'recent_interactions': []},
\* the empty dict being None
FreshContext ==
  [current_medications |-> << >>, patient_info |-> None, recent_interactions |-> << >>]

NoAssistant == [op |-> "", clock |-> 0, added |-> << >>, prompt |-> None]

\* initialize_conversation_history overwriting what the session holds
InitializeOverwriting(ss) ==
  [conversation_history |-> Some(<< >>), ai_context |-> Some(FreshContext)]

\* initialize_conversation_history on the session state ss
initialize_conversation_history(ss) ==
  [conversation_history |->
     IF ss.conversation_history = None THEN Some(<< >>) ELSE ss.conversation_history,
   ai_context |->
     IF ss.ai_context = None THEN Some(FreshContext) ELSE ss.ai_context]

\* the number of exchanges add_to_conversation keeps
HistoryLimit == 10

\* s[-n:]
LastN(s, n) == IF Len(s) > n THEN SubSeq(s, Len(s) - n + 1, Len(s)) ELSE s
\* s[:n]
FirstN(s, n) == IF Len(s) > n THEN SubSeq(s, 1, n) ELSE s

Exchange(timestamp, user_input, ai_response) ==
  [timestamp |-> timestamp, user |-> user_input, assistant |-> ai_response]

\* Trimmed that drops the newest entries instead of the oldest
TrimmedFromEnd(appended) ==
  IF Len(appended) > HistoryLimit THEN FirstN(appended, HistoryLimit) ELSE appended

\* the history once an exchange is appended
Trimmed(appended) ==
  IF Len(appended) > HistoryLimit THEN LastN(appended, HistoryLimit) ELSE appended

\* add_to_conversation on the history, at the time the clock shows
add_to_conversation(history, timestamp, user_input, ai_response) ==
  Trimmed(Append(history, Exchange(timestamp, user_input, ai_response)))

\* \w of re
IsWordChar(c) ==
  IsDigit(c) \/ IndexIn(c, UpperChars) > 0 \/ IndexIn(c, LowerChars) > 0 \/ c = "_"

\* \b of re between the positions i - 1 and i of s
WordBoundary(s, i) ==
  (i >= 2 /\ i - 1 <= Len(s) /\ IsWordChar(s[i - 1]))
    /= (i >= 1 /\ i <= Len(s) /\ IsWordChar(s[i]))

\* the names of med_pattern, in its order
MedPatternNames ==
  << Name_paracetamol, Name_ibuprofen, Name_aspirin, Name_warfarin,
     Name_metformin, Name_omeprazole, Name_atorvastatin, Name_lisinopril,
     Name_amoxicillin, Name_azithromycin, Name_prednisone, Name_ciprofloxacin,
     Name_levothyroxine >>

\* med_pattern matches the lowered text at i as the name k
NameAt(lowered, i, k) ==
  /\ StartsAt(lowered, i, MedPatternNames[k])
  /\ WordBoundary(lowered, i)
  /\ WordBoundary(lowered, i + Len(MedPatternNames[k]))

\* the length of the match of med_pattern at i, 0 for none
MatchLen(lowered, i) ==
  IF \E k \in 1..Len(MedPatternNames) : NameAt(lowered, i, k)
  THEN Len(MedPatternNames[CHOOSE k \in 1..Len(MedPatternNames) :
                             /\ NameAt(lowered, i, k)
                             /\ \A j \in 1..(k - 1) : ~NameAt(lowered, i, j)])
  ELSE 0

\* re.findall(med_pattern, text, re.IGNORECASE) from the position i on
RECURSIVE FindFrom(_, _, _)
FoundAt(text, lowered, i, n) ==
  IF n > 0 THEN << SubSeq(text, i, i + n - 1) >> \o FindFrom(text, lowered, i + n)
  ELSE FindFrom(text, lowered, i + 1)
FindFrom(text, lowered, i) ==
  IF i > Len(text) THEN << >> ELSE FoundAt(text, lowered, i, MatchLen(lowered, i))

\* entities['medications'] of extract_medical_entities(text)
extract_medical_entities(text) == FindFrom(text, Lower(text), 1)

\* the context list after the names of a query are added, duplicates kept
ExtendedKeepingDuplicates(current_medications, found_names) ==
  current_medications \o found_names

\* the context list after the names of a query are added
Extended(current_medications, found_names) ==
  IF found_names /= << >>
  THEN Distinct(current_medications \o found_names)
  ELSE current_medications

\* context_info of generate_enhanced_ai_response: the line of the
\* medications and the line of the patient, when it has them
ContextInfo(context, ai_context) ==
  IF context /= None
  THEN [medications |-> IF ai_context.current_medications /= << >>
                        THEN Some(ai_context.current_medications) ELSE None,
        patient |-> ai_context.patient_info]
  ELSE [medications |-> None, patient |-> None]

\* conversation_context: the last two exchanges, cut to 100 and 200 characters
ConversationContext(history) ==
  [k \in 1..Len(LastN(history, 2)) |->
     [user |-> FirstN(LastN(history, 2)[k].user, 100),
      assistant |-> FirstN(LastN(history, 2)[k].assistant, 200)]]

\* the parts of enhanced_prompt that come from the session and the query
enhanced_prompt(query, context, ss) ==
  [context_info |-> ContextInfo(context, Val(ss.ai_context)),
   conversation_context |-> ConversationContext(Val(ss.conversation_history)),
   query |-> query]

\* questions asked of the assistant
Query_aspirin_dose == <<"a","s","p","i","r","i","n"," ","d","o","s","e","?">>
Query_Aspirin_aspirin_warfarin == <<"A","s","p","i","r","i","n"," ","o","r"," ","a","s","p","i","r","i","n",","," ","w","i","t","h"," ","W","a","r","f","a","r","i","n">>
Query_aspirins == <<"a","r","e"," ","a","s","p","i","r","i","n","s"," ","s","a","f","e">>
QueryInputs == { Query_aspirin_dose, Query_Aspirin_aspirin_warfarin, Query_aspirins }

\* answers of the language model
Response_ok == <<"o","k">>
ResponseInputs == { Response_ok }

\* drug lists of the interaction tab and names found by the extraction tab
MedListInputs == { << Name_warfarin, Name_aspirin >>, << Name_aspirin, Name_aspirin >> }
ExtractedInputs == { << Name_metformin, Name_aspirin >> }
PatientInputs == { [age |-> Years(30), weight |-> 0, drug |-> Name_paracetamol] }

\* bounds: exchanges added by calls of add_to_conversation alone, questions
\* asked through the assistant tab, entries of the context list
MaxExchanges == 11
MaxQueries == 2
MaxContextMeds == 3

Ready == session_state.conversation_history /= None /\ session_state.ai_context /= None
TheHistory == Val(session_state.conversation_history)
TheContext == Val(session_state.ai_context)

AssistantFrame ==
  UNCHANGED << medications, doseVars, probe, raised, ddiVars, remote, callers, direct >>

\* main starts: initialize_conversation_history()
InitializeSession ==
  /\ session_state' = initialize_conversation_history(session_state)
  /\ assistant' = [assistant EXCEPT !.op = "initialize"]
  /\ AssistantFrame

\* the "Clear Chat History" button
ClearChatHistory ==
  /\ Ready
  /\ session_state' = [conversation_history |-> Some(<< >>), ai_context |-> Some(FreshContext)]
  /\ assistant' = [assistant EXCEPT !.op = "clear", !.added = << >>]
  /\ AssistantFrame

\* a call of add_to_conversation
AddToConversation(user_input, ai_response) ==
  /\ Ready
  /\ assistant.clock < MaxExchanges
  /\ session_state' =
       [session_state EXCEPT !.conversation_history =
          Some(add_to_conversation(TheHistory, assistant.clock + 1, user_input, ai_response))]
  /\ assistant' =
       [assistant EXCEPT !.op = "add", !.clock = @ + 1,
                         !.added = Append(@, Exchange(assistant.clock + 1, user_input, ai_response))]
  /\ AssistantFrame

\* the interaction tab stores its drug list in the context
NoteMedications(drug_list) ==
  /\ Ready
  /\ session_state' =
       [session_state EXCEPT !.ai_context =
          Some([TheContext EXCEPT !.current_medications = drug_list])]
  /\ assistant' = [assistant EXCEPT !.op = "check"]
  /\ AssistantFrame

\* the extraction tab adds the names it found to the context
NoteExtracted(med_names) ==
  /\ Ready
  /\ Len(TheContext.current_medications) + Len(med_names) <= MaxContextMeds
  /\ session_state' =
       [session_state EXCEPT !.ai_context =
          Some([TheContext EXCEPT !.current_medications = @ \o med_names])]
  /\ assistant' = [assistant EXCEPT !.op = "extract"]
  /\ AssistantFrame

\* the dosage tab stores the patient in the context
NotePatient(info) ==
  /\ Ready
  /\ session_state' =
       [session_state EXCEPT !.ai_context =
          Some([TheContext EXCEPT !.patient_info = Some(info)])]
  /\ assistant' = [assistant EXCEPT !.op = "dosage"]
  /\ AssistantFrame

\* "Get AI Response" once the entities of the question are extracted
Asked(query, use_context, ai_response, entities, ai_context) ==
  /\ session_state' =
       [conversation_history |->
          Some(add_to_conversation(TheHistory, assistant.clock + 1, query, ai_response)),
        ai_context |-> Some(ai_context)]
  /\ assistant' =
       [op |-> "ask",
        clock |-> assistant.clock + 1,
        added |-> Append(assistant.added, Exchange(assistant.clock + 1, query, ai_response)),
        prompt |-> Some([use_context |-> use_context,
                         entities |-> entities,
                         text |-> enhanced_prompt(query,
                                    IF use_context THEN Some(ai_context) ELSE None,
                                    [session_state EXCEPT !.ai_context = Some(ai_context)])])]
  /\ AssistantFrame

\* the context once the names of the question are added to its list
Updated(ai_context, entities) ==
  [ai_context EXCEPT !.current_medications = Extended(@, entities)]

\* the "Get AI Response" button with a question
AskAI(query, use_context, ai_response) ==
  /\ Ready
  /\ assistant.clock < MaxQueries
  /\ \E entities \in { extract_medical_entities(query) } :
       Asked(query, use_context, ai_response, entities, Updated(TheContext, entities))

Init ==
  /\ medications = Medications
  /\ drug_name = Name_paracetamol
  /\ age_years = Years(30)
  /\ weight_kg = Some(0)
  /\ call = None
  /\ rec = None
  /\ trace = << >>
  /\ raised = ""
  /\ probe = [stage |-> 0, rec |-> None]
  /\ ddi_file = ""
  /\ drug_names = << >>
  /\ local_records = << >>
  /\ fuzz_threshold = 85
  /\ mapping = << >>
  /\ found = None
  /\ shown = ""
  /\ ddi_call = ""
  /\ remote = NoRemote
  /\ callers = [c \in 1..NumCallers |-> Idle]
  /\ direct = None
  /\ session_state = NoSession
  /\ assistant = NoAssistant

Next ==
  \/ \E d \in DrugInputs : SelectDrug(d)
  \/ \E a \in AgeInputs : SetAge(a)
  \/ \E w \in WeightInputs : SetWeight(w)
  \/ CallRecommendDose
  \/ CalculateDoseBtn

Spec == Init /\ [][Next]_vars

NextConcurrent ==
  \/ \E rows \in SharedRecordInputs : SupplyRecords(rows)
  \/ \E c \in 1..NumCallers : \E args \in ConcurrentCalls : Begin(c, args)
  \/ \E c \in 1..NumCallers : LookUpRules(c)
  \/ \E c \in 1..NumCallers : ReturnDose(c)
  \/ \E c \in 1..NumCallers : MapNames(c)
  \/ \E c \in 1..NumCallers : ScanRecords(c)
  \/ \E c \in 1..NumCallers : Forget(c)

SpecConcurrent == Init /\ [][NextConcurrent]_vars

\* the interaction tab with the remote services in every state, on lists
\* of two names
RemoteNameInputs == { Name_Warfarin, Name_aspirin }
RemoteRecordInputs == { << Row_Aspirin_Warfarin >> }

NextRemote ==
  \/ \E d \in RemoteNameInputs : AppendDrug(d)
  \/ ClearDrugs
  \/ \E rows \in RemoteRecordInputs \cup { << >> } : SetRecords(rows)
  \/ \E env \in Environments(drug_names) : \E file \in FileStates :
       CheckInteractions(env, file)

SpecRemote == Init /\ [][NextRemote]_vars

NextHelpers ==
  \/ CallEstimateWeight
  \/ CallCalculateDose
  \/ CallAdjustMax
  \/ DropResult

SpecHelpers == Init /\ [][NextHelpers]_vars

\* add_to_conversation called again and again
NextConversation ==
  \/ InitializeSession
  \/ ClearChatHistory
  \/ \E q \in { Query_aspirin_dose, Query_aspirins } : AddToConversation(q, Response_ok)

SpecConversation == Init /\ [][NextConversation]_vars

\* the assistant tab next to the tabs that write the context
NextAssistant ==
  \/ InitializeSession
  \/ ClearChatHistory
  \/ \E drug_list \in MedListInputs : NoteMedications(drug_list)
  \/ \E med_names \in ExtractedInputs : NoteExtracted(med_names)
  \/ \E info \in PatientInputs : NotePatient(info)
  \/ \E q \in QueryInputs : \E use_context \in BOOLEAN : \E r \in ResponseInputs :
       AskAI(q, use_context, r)

SpecAssistant == Init /\ [][NextAssistant]_vars

NextDDI ==
  \/ \E d \in DrugNameInputs : AppendDrug(d)
  \/ ClearDrugs
  \/ \E rows \in RecordInputs : SetRecords(rows)
  \/ \E t \in ThresholdInputs : SetThreshold(t)
  \/ CallFindDdiLocal
  \/ \E f \in FileStates : LocalFallback(f)

SpecDDI == Init /\ [][NextDDI]_vars

-----------------------------------------------------------------------------
(* properties of the dose recommendation *)

\* the call made and what it returned
TheCall == Val(call)
TheRec == Val(rec)
ResultFields == {"drug", "age_years", "weight_kg", "dosage", "max_per_day"}
IsRecommendation(r) == "error" \notin DOMAIN r

\* the positions of the rules of `key` whose band holds the age
BandsHolding(key, age) ==
  { i \in 1..Len(Medications[key]) :
      Medications[key][i].age_min <= age /\ age < Medications[key][i].age_max }

\* C1: for a drug of the table and an age inside one of its bands
\* (age_min <= age < age_max), recommend_dose returns a recommendation, not
\* an error, whose dosage and max_per_day are non-empty strings and whose
\* weight_kg is the supplied weight when one is supplied and
\* estimate_weight_by_age(age) otherwise.
C1_InBandRecommendation ==
  (call /= None /\ TheCall.drug_name \in DOMAIN Medications
     /\ BandsHolding(TheCall.drug_name, TheCall.age_years) /= {})
  => /\ rec /= None
     /\ IsRecommendation(TheRec)
     /\ TheRec.dosage /= << >>
     /\ TheRec.max_per_day /= << >>
     /\ TheRec.weight_kg = IF TheCall.weight_kg /= None
                           THEN Val(TheCall.weight_kg)
                           ELSE estimate_weight_by_age(TheCall.age_years)

\* a call at the lower limit of a band with no weight, answered with the
\* estimated weight
C1_Witness_EstimatedAtBandStart ==
  /\ call /= None
  /\ TheCall.drug_name = Name_ibuprofen
  /\ TheCall.age_years = Years(12)
  /\ TheCall.weight_kg = None
  /\ rec /= None
  /\ IsRecommendation(TheRec)
  /\ TheRec.weight_kg = Kg(70)
  /\ TheRec.dosage /= << >>

\* a call with a supplied weight, answered with that weight
C1_Witness_SuppliedWeight ==
  /\ call /= None
  /\ TheCall.drug_name \in DOMAIN Medications
  /\ TheCall.weight_kg = Some(200)
  /\ rec /= None
  /\ IsRecommendation(TheRec)
  /\ TheRec.weight_kg = 200

\* C2: recommend_dose replaces the weight with estimate_weight_by_age(age)
\* whenever the weight argument is None, zero or negative, so the weight it
\* returns and computes with is never non-positive.
C2_WeightNeverNonPositive ==
  (call /= None /\ rec /= None /\ IsRecommendation(TheRec))
  => /\ TheRec.weight_kg > 0
     /\ (TheCall.weight_kg = None \/ Val(TheCall.weight_kg) <= 0)
          => TheRec.weight_kg = estimate_weight_by_age(TheCall.age_years)

\* a call with weight 0 answered with a recommendation (reached from any
\* caller other than the dosage tab)
C2_Witness_ZeroWeightCall ==
  /\ call /= None
  /\ TheCall.weight_kg = Some(0)
  /\ rec /= None
  /\ IsRecommendation(TheRec)

\* C3: recommend_dose looks the drug up by its lowercased name; a name not in
\* the table gets an error result (an 'error' field and none of drug,
\* age_years, weight_kg, dosage, max_per_day) and no exception; a successful
\* result has those five fields and no 'error' field.
C3_UnknownDrugErrorResult ==
  call /= None
  => /\ raised = ""
     /\ rec /= None
     /\ Lower(TheCall.drug_name) \notin DOMAIN Medications
          => /\ "error" \in DOMAIN TheRec
             /\ DOMAIN TheRec \cap ResultFields = {}
     /\ (TheCall.drug_name = Name_Aspirin
           /\ BandsHolding(Name_aspirin, TheCall.age_years) /= {})
          => IsRecommendation(TheRec)
     /\ (TheCall.drug_name = Name_IBUPROFEN
           /\ BandsHolding(Name_ibuprofen, TheCall.age_years) /= {})
          => IsRecommendation(TheRec)
     /\ IsRecommendation(TheRec) => DOMAIN TheRec = ResultFields
     /\ ~IsRecommendation(TheRec) => DOMAIN TheRec \cap ResultFields = {}

\* a call with a name no rule exists for, answered with an error result
C3_Witness_UnknownName ==
  /\ call /= None
  /\ TheCall.drug_name = Name_unknown
  /\ raised = ""
  /\ rec /= None
  /\ DOMAIN TheRec = {"error"}

\* a call with a capitalised name, answered from the lowercase key's rules
C3_Witness_CapitalisedName ==
  /\ call /= None
  /\ TheCall.drug_name = Name_Aspirin
  /\ rec /= None
  /\ DOMAIN TheRec = ResultFields

\* C4: for a known drug recommend_dose uses the first rule in list order with
\* age_min <= age < age_max; when no band of the drug holds the age it
\* returns the "no dosing rule" error result and computes no dose.
C4_FirstBandOrNoRule ==
  (call /= None /\ Lower(TheCall.drug_name) \in DOMAIN Medications)
  => LET key   == Lower(TheCall.drug_name)
         age   == TheCall.age_years
         hits  == BandsHolding(key, age)
         first == CHOOSE i \in hits : \A j \in hits : i <= j
         rule  == Medications[key][first]
     IN  /\ rec /= None
         /\ hits = {} =>
              /\ TheRec = [error |-> [msg |-> "No dosing rule found",
                                      drug |-> TheCall.drug_name, age |-> age]]
              /\ trace = << >>
         /\ hits /= {} =>
              /\ IsRecommendation(TheRec)
              /\ TheRec.dosage = calculate_dose(rule.dose, TheRec.weight_kg, age)
              /\ TheRec.max_per_day =
                   adjust_max_for_age_weight(rule.max, age, TheRec.weight_kg)

\* a known drug at an age below its first band: the error, no helper called
C4_Witness_NoBandForAge ==
  /\ call /= None
  /\ Lower(TheCall.drug_name) \in DOMAIN Medications
  /\ BandsHolding(Lower(TheCall.drug_name), TheCall.age_years) = {}
  /\ rec /= None
  /\ ~IsRecommendation(TheRec)
  /\ trace = << >>

\* a known drug at the exact upper limit of one band, answered from the next
C4_Witness_AtBandLimit ==
  /\ call /= None
  /\ TheCall.drug_name \in DOMAIN Medications
  /\ LET rules == Medications[TheCall.drug_name]
     IN  \E i \in 1..Len(rules) :
           /\ rules[i].age_max = TheCall.age_years
           /\ i + 1 \in BandsHolding(TheCall.drug_name, TheCall.age_years)
  /\ rec /= None
  /\ IsRecommendation(TheRec)

\* C10: two calls of recommend_dose with the same (drug_name, age_years,
\* weight_kg), whatever calls come between them, return the same result: the
\* outcome depends only on the arguments and the static rule table.
C10_SameArgumentsSameResult ==
  /\ medications = Medications
  /\ call /= None =>
       LET again == recommend_dose(Medications, TheCall.drug_name,
                                   TheCall.age_years, TheCall.weight_kg)
       IN  rec = Some(again.ret)
  /\ (probe.stage \in {1, 3} /\ call = Some(ProbeCall)) => rec = probe.rec

\* the same arguments called a second time after a call with other
\* arguments, with the result of the first call returned again
C10_Witness_RepeatedCall ==
  /\ probe.stage = 3
  /\ call = Some(ProbeCall)
  /\ probe.rec /= None
  /\ rec = probe.rec
-----------------------------------------------------------------------------
(* properties of the local interaction matcher *)

\* the records find_ddi_local was called with
PassedRecords == IF ddi_call = "main" THEN CsvRecords(local_records) ELSE local_records
TheFound == Val(found)
DbList == Vocabulary(PassedRecords)
Score(d, v) == token_sort_ratio(Lower(d), v)
AtLeast(x, threshold) == ~Less(x, Frac(threshold, 1))

\* the input d fails fuzzy matching: no name of the vocabulary reaches the
\* threshold
Fails(d) == \A v \in DbList : ~AtLeast(Score(d, v), fuzz_threshold)

\* the positions of the records that hold the names ma and mb, in either
\* column order
RecordsOfPair(ma, mb) ==
  { k \in 1..Len(PassedRecords) :
      LET ra == Lower(PassedRecords[k].drug_a)
          rb == Lower(PassedRecords[k].drug_b)
      IN  (ra = ma /\ rb = mb) \/ (ra = mb /\ rb = ma) }

\* C5: for two input drugs that both fuzzy-match table names, find_ddi_local
\* returns exactly one matched pair when the table holds one record for the
\* pair, whether the record lists the drugs as (drug_a, drug_b) or as
\* (drug_b, drug_a).
C5_OneRecordEitherOrder ==
  (found /= None /\ Len(drug_names) = 2
     /\ ~Fails(drug_names[1]) /\ ~Fails(drug_names[2]))
  => LET a  == drug_names[1]
         b  == drug_names[2]
     IN  /\ mapping[a] /= None
         /\ mapping[b] /= None
         /\ Cardinality(RecordsOfPair(Val(mapping[a]), Val(mapping[b]))) = 1
              => /\ Len(TheFound) = 1
                 /\ TheFound[1].drug_a = a
                 /\ TheFound[1].drug_b = b
                 /\ TheFound[1].matched_a = Val(mapping[a])
                 /\ TheFound[1].matched_b = Val(mapping[b])

\* the inputs (Warfarin, aspirin) against the one record (Aspirin, Warfarin):
\* the pair is found from the record in the other column order
C5_Witness_ReversedRecord ==
  /\ found /= None
  /\ drug_names = << Name_Warfarin, Name_aspirin >>
  /\ local_records = << Row_Aspirin_Warfarin >>
  /\ Len(TheFound) = 1
  /\ TheFound[1].severity = "Medium"

\* C6: find_ddi_local resolves each input drug, lowercased, to a
\* best-scoring name of the table vocabulary and accepts it exactly when
\* that score is >= fuzz_threshold (the threshold itself accepted, 85 when
\* the caller gives none); below the threshold the drug is unmatched (None).
C6_BestScoreAtThreshold ==
  found /= None
  => /\ DOMAIN mapping = { drug_names[i] : i \in 1..Len(drug_names) }
     /\ ddi_call = "main" => fuzz_threshold = 85
     /\ \A d \in DOMAIN mapping :
          IF Fails(d) THEN mapping[d] = None
          ELSE /\ mapping[d] /= None
               /\ Val(mapping[d]) \in DbList
               /\ \A v \in DbList : ~Less(Score(d, Val(mapping[d])), Score(d, v))

\* "asperine" scores exactly 80 against "aspirin": accepted at threshold 80
C6_Witness_ScoreEqualsThreshold ==
  /\ found /= None
  /\ fuzz_threshold = 80
  /\ Name_asperine \in DOMAIN mapping
  /\ mapping[Name_asperine] = Some(Name_aspirin)
  /\ Same(Score(Name_asperine, Name_aspirin), Frac(80, 1))

\* C7: an input drug that fails fuzzy matching never appears as drug_a or
\* drug_b of a returned pair, while the pairs of the remaining matched
\* drugs are still reported.
C7_UnmatchedExcluded ==
  found /= None
  => /\ \A k \in 1..Len(TheFound) :
          ~Fails(TheFound[k].drug_a) /\ ~Fails(TheFound[k].drug_b)
     /\ \A i \in 1..Len(drug_names) : \A j \in (i + 1)..Len(drug_names) :
          (/\ ~Fails(drug_names[i])
           /\ ~Fails(drug_names[j])
           /\ mapping[drug_names[i]] /= None
           /\ mapping[drug_names[j]] /= None
           /\ RecordsOfPair(Val(mapping[drug_names[i]]),
                            Val(mapping[drug_names[j]])) /= {})
          => \E k \in 1..Len(TheFound) :
               /\ TheFound[k].drug_a = drug_names[i]
               /\ TheFound[k].drug_b = drug_names[j]

\* three inputs, the middle one failing, and the pair of the other two
\* reported
C7_Witness_OneOfThreeFails ==
  /\ found /= None
  /\ Len(drug_names) = 3
  /\ Fails(drug_names[2])
  /\ ~Fails(drug_names[1])
  /\ ~Fails(drug_names[3])
  /\ Len(TheFound) >= 1
  /\ TheFound[1].drug_a = drug_names[1]
  /\ TheFound[1].drug_b = drug_names[3]

\* C8: find_ddi_local called with an empty record list returns an empty
\* list for every list of input drug names and raises no error.
C8_EmptyRecordsEmptyResult ==
  (ddi_call = "find_ddi_local" /\ local_records = << >>)
  => /\ raised = ""
     /\ found = Some(<< >>)
     /\ \A d \in DOMAIN mapping : mapping[d] = None

\* a call with two or more names and no record, answered with the empty list
C8_Witness_NamesWithoutRecords ==
  /\ ddi_call = "find_ddi_local"
  /\ local_records = << >>
  /\ Len(drug_names) >= 2
  /\ raised = ""
  /\ found = Some(<< >>)

\* C9: loading the local interaction data never faults: when the file is
\* missing or its content is invalid, load_local_ddi yields an empty record
\* list and the interaction check continues.
C9_LoadNeverFaults ==
  ddi_call = "main"
  => /\ raised = ""
     /\ ddi_file \in {"missing", "unparseable"}
          => shown = "Local DDI database not available"

\* the interaction check stopped by the exception read_csv raised on a file
\* that exists but cannot be parsed
C9_Witness_UnparseableFile ==
  /\ ddi_call = "main"
  /\ ddi_file = "unparseable"
  /\ raised /= ""
  /\ shown = ""

\* the interaction check going on after a missing file
C9_Witness_MissingFile ==
  /\ ddi_call = "main"
  /\ ddi_file = "missing"
  /\ raised = ""
  /\ shown = "Local DDI database not available"
-----------------------------------------------------------------------------
(* properties of concurrent use *)

\* C11: calls of recommend_dose and find_ddi_local by several callers,
\* interleaved in any order, each return what the same call returns alone:
\* no call changes the medications table or the records supplied.
C11_InterleavedCallsAsAlone ==
  /\ medications = Medications
  /\ \A c \in 1..NumCallers :
       /\ callers[c] /= Idle => local_records = callers[c].records
       /\ callers[c].pc = "returned" =>
            IF callers[c].args.op = "recommend_dose"
            THEN callers[c].ret =
                   recommend_dose(Medications, callers[c].args.drug_name,
                                  callers[c].args.age_years,
                                  callers[c].args.weight_kg).ret
            ELSE \E alone \in find_ddi_local(callers[c].args.drug_names,
                                             callers[c].records, fuzz_threshold) :
                   callers[c].ret = alone.ret

\* a call of recommend_dose has returned to caller 1 while caller 2's call
\* of find_ddi_local is between its two reads of the shared records
C11_Witness_CallsOverlap ==
  /\ callers[1].pc = "returned"
  /\ callers[1].args.op = "recommend_dose"
  /\ "dosage" \in DOMAIN callers[1].ret
  /\ callers[2].pc = "mapped"
  /\ Len(callers[2].records) = 3
-----------------------------------------------------------------------------
(* properties of the interaction check with its remote services *)

\* the names the check was run on
CheckedNames == { drug_names[k] : k \in 1..Len(drug_names) }

C13_FailedNormalizationSkipped ==
  ddi_call = "main"
  => /\ DOMAIN remote.norm_map = CheckedNames
     /\ \A d \in CheckedNames :
          IF remote.env.rxnorm[d] = "ids"
          THEN /\ remote.norm_map[d] = Some([rxcui |-> RxCui(d)])
               /\ \E k \in 1..Len(remote.rxcuis) : remote.rxcuis[k] = RxCui(d)
          ELSE /\ remote.norm_map[d] = None
               /\ \A k \in 1..Len(remote.rxcuis) :
                    remote.rxcuis[k] /= RxCui(d) /\ remote.rxcuis[k] /= d
     /\ Len(remote.rxcuis) =
          Cardinality({ d \in CheckedNames : remote.env.rxnorm[d] = "ids" })
     /\ remote.sent <=> remote.rxcuis /= << >>

\* the first drug fails to normalize with an error, the second is
\* normalized and checked alone
C13_Witness_FirstFailsSecondChecked ==
  /\ ddi_call = "main"
  /\ Len(drug_names) >= 2
  /\ remote.env.rxnorm[drug_names[1]] = "error"
  /\ remote.norm_map[drug_names[1]] = None
  /\ remote.rxcuis = << RxCui(drug_names[2]) >>
  /\ remote.sent
  /\ remote.interactions /= << >>
-----------------------------------------------------------------------------
(* properties of the dosing helpers called by themselves *)

\* the helper call held, when it is a call of fn
Helped(fn) == direct /= None /\ Val(direct).fn = fn
TheHelp == Val(direct)

\* a tenth of a year, in hundredths of a year
TenthOfYear == Years(1) \div 10

\* C14: estimate_weight_by_age returns, for every non-negative age, 4.0
\* below 0.1 years, 8.0 from 0.1 to below 1, 15.0 from 1 to below 5, 35.0
\* from 5 to below 12 and 70.0 from 12 on; a breakpoint is in the upper band.
C14_WeightBandOfAge ==
  Helped("estimate_weight_by_age")
  => /\ TheHelp.age_years >= 0
     /\ TheHelp.age_years < TenthOfYear => TheHelp.ret = Kg(4)
     /\ (TenthOfYear <= TheHelp.age_years /\ TheHelp.age_years < Years(1))
        => TheHelp.ret = Kg(8)
     /\ (Years(1) <= TheHelp.age_years /\ TheHelp.age_years < Years(5))
        => TheHelp.ret = Kg(15)
     /\ (Years(5) <= TheHelp.age_years /\ TheHelp.age_years < Years(12))
        => TheHelp.ret = Kg(35)
     /\ Years(12) <= TheHelp.age_years => TheHelp.ret = Kg(70)

\* the estimate at the breakpoint of twelve years
C14_Witness_TwelveYears ==
  /\ Helped("estimate_weight_by_age")
  /\ TheHelp.age_years = Years(12)
  /\ TheHelp.ret = Kg(70)
\* low or high of a form times a weight, as the float product
Amount(x, weight) == Times(Frac(x.n, x.d), Frac(weight, Kg(1)))

\* the two amounts of a per-kilogram form are the same number
OneAmount(f, weight) ==
  \/ f.high = None
  \/ Same(Amount(f.low, weight), Amount(Val(f.high), weight))

\* the per-kilogram form f at a weight: one amount or low-high with one
\* decimal each, the unit as written, the text after "/kg"
PerKgResult(f, weight, single) ==
  (IF single
   THEN FormatF(Amount(f.low, weight), 1)
   ELSE FormatF(Amount(f.low, weight), 1) \o << EnDash >>
          \o FormatF(Amount(Val(f.high), weight), 1))
    \o <<" ">> \o f.unit \o SubSeq(f.tail, Len(PerKg) + 1, Len(f.tail))

\* C15 (as stated): for a dose text 'low[-high] unit/kg suffix'
\* calculate_dose multiplies low and high by the weight, gives a single
\* value when the text has no range and 'low-high' otherwise, keeps the
\* unit, appends the text after '/kg', and does not depend on age.
C15_SingleValueOnlyWithoutRange ==
  Helped("calculate_dose")
  => \A f \in PerKgForms :
       TheHelp.dose_str = Written(f)
       => TheHelp.ret = PerKgResult(f, TheHelp.weight, f.high = None)

\* C15 (amended): for a dose text 'low[-high] unit/kg suffix' calculate_dose
\* multiplies low and high by the weight, gives a single value when the two
\* products are equal (no range, equal bounds or a weight of zero) and
\* 'low-high' otherwise, keeps the unit, appends the text after '/kg', and
\* does not depend on age.
C15_PerKgScaledByWeight ==
  Helped("calculate_dose")
  => \A f \in PerKgForms :
       TheHelp.dose_str = Written(f)
       => TheHelp.ret = PerKgResult(f, TheHelp.weight, OneAmount(f, TheHelp.weight))

\* calculate_dose("10 mg/kg every 6h", 20, 5) is "200.0 mg every 6h"
C15_Witness_TenPerKgAtTwentyKg ==
  /\ Helped("calculate_dose")
  /\ TheHelp.dose_str = <<"1","0"," ","m","g","/","k","g"," ","e","v","e","r","y"," ","6","h">>
  /\ TheHelp.weight = Kg(20)
  /\ TheHelp.age = Years(5)
  /\ TheHelp.ret = <<"2","0","0",".","0"," ","m","g"," ","e","v","e","r","y"," ","6","h">>

\* a range scaled to two amounts
C15_Witness_RangeScaled ==
  /\ Helped("calculate_dose")
  /\ TheHelp.dose_str = <<"2",".","5",EnDash,"1","5"," ","m","g","/","k","g","/","d","a","y">>
  /\ TheHelp.weight = Kg(20)
  /\ TheHelp.ret = <<"5","0",".","0",EnDash,"3","0","0",".","0"," ","m","g","/","d","a","y">>

\* a range at a weight of zero comes out as one amount
C15_Witness_RangeAtZeroWeight ==
  /\ Helped("calculate_dose")
  /\ TheHelp.dose_str = <<"1","0",EnDash,"1","5"," ","m","g","/","k","g"," ","e","v","e","r","y"," ","6","h">>
  /\ TheHelp.weight = 0
  /\ TheHelp.ret = <<"0",".","0"," ","m","g"," ","e","v","e","r","y"," ","6","h">>
\* the amount chosen from an absolute form at an age
Chosen(f, age) ==
  IF age >= Years(65) THEN f.low.n
  ELSE IF f.high = None THEN (f.low.n + f.low.n) \div 2
  ELSE (f.low.n + Val(f.high).n) \div 2

\* C16: for a dose text 'low[-high] unit suffix' without '/kg',
\* calculate_dose takes low from 65 years on and the floor of (low+high)/2
\* below (high being low without a range), and returns the chosen amount,
\* a space, the unit and the text that followed the unit.
C16_AbsoluteDoseByAge ==
  Helped("calculate_dose")
  => \A f \in AbsoluteForms :
       TheHelp.dose_str = Written(f)
       => TheHelp.ret = NatToStr(Chosen(f, TheHelp.age)) \o <<" ">> \o f.unit \o f.tail

\* calculate_dose("500-1000 mg every 6h", ., 70) is "500 mg every 6h"
C16_Witness_LowBoundAtSeventy ==
  /\ Helped("calculate_dose")
  /\ TheHelp.dose_str = <<"5","0","0",EnDash,"1","0","0","0"," ","m","g"," ","e","v","e","r","y"," ","6","h">>
  /\ TheHelp.age = Years(70)
  /\ TheHelp.weight = Kg(70)
  /\ TheHelp.ret = <<"5","0","0"," ","m","g"," ","e","v","e","r","y"," ","6","h">>

\* the same text at 30 years is "750 mg every 6h"
C16_Witness_AverageAtThirty ==
  /\ Helped("calculate_dose")
  /\ TheHelp.dose_str = <<"5","0","0",EnDash,"1","0","0","0"," ","m","g"," ","e","v","e","r","y"," ","6","h">>
  /\ TheHelp.age = Years(30)
  /\ TheHelp.ret = <<"7","5","0"," ","m","g"," ","e","v","e","r","y"," ","6","h">>

\* the reductions of the maximum
AgeFactor(age) ==
  IF age >= Years(80) THEN Frac(6, 10)
  ELSE IF age >= Years(65) THEN Frac(75, 100)
  ELSE Frac(1, 1)
WeightFactor(weight) == IF weight < Kg(50) THEN Frac(75, 100) ELSE Frac(1, 1)
TotalFactor(age, weight) == Times(AgeFactor(age), WeightFactor(weight))
TotalFactors ==
  { Frac(1, 1), Frac(75, 100), Frac(6, 10), Frac(5625, 10000), Frac(45, 100) }

\* the maximum of a form in its own unit or, for grams, in milligrams
Extracted(f) ==
  IF f.unit = Unit_g THEN Frac(f.low.n * 1000, f.low.d) ELSE Frac(f.low.n, f.low.d)

\* a reduced maximum as the adjuster prints it
Printed(f, value) ==
  IF f.unit = Unit_g \/ (f.unit = Unit_mg /\ ~Less(value, Frac(1000, 1)))
  THEN FormatF(Times(value, Frac(1, 1000)), 1) \o GDayAdjusted
  ELSE FormatF(value, 0) \o <<" ">> \o f.unit \o PerDayAdjusted

\* C17: adjust_max_for_age_weight multiplies the extracted maximum by one
\* factor for age (0.6 from 80 years, else 0.75 from 65, else 1) and by 0.75
\* more below 50 kg, so by 1, 0.75, 0.6, 0.5625 or 0.45 in all.
C17_OneAgeFactorTimesWeightFactor ==
  Helped("adjust_max_for_age_weight")
  => /\ TotalFactor(TheHelp.age, TheHelp.weight) \in TotalFactors
     /\ \A f \in MaxForms :
          TheHelp.max_str = Written(f)
          => TheHelp.ret =
               Printed(f, Times(Extracted(f), TotalFactor(TheHelp.age, TheHelp.weight)))

\* adjust_max_for_age_weight("4 g/day", 85, 40) is "1.8 g/day (adjusted)"
C17_Witness_FourGramsAtEightyFive ==
  /\ Helped("adjust_max_for_age_weight")
  /\ TheHelp.max_str = <<"4"," ","g","/","d","a","y">>
  /\ TheHelp.age = Years(85)
  /\ TheHelp.weight = Kg(40)
  /\ TheHelp.ret = <<"1",".","8"," ","g","/","d","a","y"," ","(","a","d","j","u","s","t","e","d",")">>

\* a text holds a digit followed, after any whitespace, by mg, mcg or g
HasAmount(text) ==
  \E i \in 1..Len(text) :
    /\ IsDigit(text[i])
    /\ \E j \in (i + 1)..Len(text) :
         /\ \A k \in (i + 1)..(j - 1) : IsSpace(text[k])
         /\ \E u \in UnitInputs : StartsAt(text, j, u)

\* C18: calculate_dose returns the dose text unchanged when neither of its
\* patterns matches, and adjust_max_for_age_weight returns the maximum text
\* unchanged when it holds no number followed by mg, mcg or g; each call
\* returns.
C18_UnreadTextReturnedUnchanged ==
  /\ (Helped("calculate_dose") /\ ~HasAmount(TheHelp.dose_str))
     => TheHelp.ret = TheHelp.dose_str
  /\ (Helped("adjust_max_for_age_weight") /\ ~HasAmount(TheHelp.max_str))
     => TheHelp.ret = TheHelp.max_str

\* calculate_dose on a text with a unit and no number before it
C18_Witness_DoseTextWithoutAmount ==
  /\ Helped("calculate_dose")
  /\ TheHelp.dose_str = <<"m","g"," ","t","w","i","c","e">>
  /\ TheHelp.ret = TheHelp.dose_str

\* adjust_max_for_age_weight on a text with a number and no unit it knows
C18_Witness_MaxTextWithoutAmount ==
  /\ Helped("adjust_max_for_age_weight")
  /\ TheHelp.max_str = <<"1","0"," ","u","n","i","t","s","/","k","g">>
  /\ TheHelp.age = Years(85)
  /\ TheHelp.weight = Kg(40)
  /\ TheHelp.ret = TheHelp.max_str

\* calls on texts with an amount and on texts without one both occur
C18_Witness_BothKindsOfText ==
  /\ Helped("calculate_dose")
  /\ HasAmount(TheHelp.dose_str)
  /\ TheHelp.ret /= TheHelp.dose_str
-----------------------------------------------------------------------------
(* properties of the pairs the matcher reports *)

\* the results reported for the inputs a and b, in this order
Entries(a, b) ==
  { k \in 1..Len(TheFound) : TheFound[k].drug_a = a /\ TheFound[k].drug_b = b }

\* the pairs of input positions that hold a and then b
Positions(a, b) ==
  { p \in (1..Len(drug_names)) \X (1..Len(drug_names)) :
      p[1] < p[2] /\ drug_names[p[1]] = a /\ drug_names[p[2]] = b }

\* the input d was matched to a table name
Survives(d) == mapping[d] /= None /\ Val(mapping[d]) /= << >>

\* the records of the pair of the inputs a and b
RecordsFor(a, b) == RecordsOfPair(Val(mapping[a]), Val(mapping[b]))

\* C19: find_ddi_local returns one result for every record that matches a
\* pair of inputs that were both matched, duplicates of a record included:
\* the results of a pair are as many as the records holding its matched
\* names in either order.
C19_OneResultPerMatchingRecord ==
  found /= None
  => \A i \in 1..Len(drug_names) : \A j \in (i + 1)..Len(drug_names) :
       IF Survives(drug_names[i]) /\ Survives(drug_names[j])
       THEN /\ Cardinality(Entries(drug_names[i], drug_names[j]))
                 = Cardinality(Positions(drug_names[i], drug_names[j]))
                     * Cardinality(RecordsFor(drug_names[i], drug_names[j]))
            /\ \A r \in RecordsFor(drug_names[i], drug_names[j]) :
                 \E k \in Entries(drug_names[i], drug_names[j]) :
                   /\ TheFound[k].severity = PassedRecords[r].severity
                   /\ TheFound[k].description = PassedRecords[r].description
       ELSE Entries(drug_names[i], drug_names[j]) = {}

\* one pair of inputs against a table that holds its record twice: two
\* results
C19_Witness_DuplicateRecord ==
  /\ found /= None
  /\ drug_names = << Name_Warfarin, Name_aspirin >>
  /\ PassedRecords = << Row_warfarin_aspirin, Row_warfarin_aspirin >>
  /\ Len(TheFound) = 2
  /\ TheFound[1] = TheFound[2]

\* the pairs of input positions whose two inputs were matched, each with a
\* record of the pair
Reports ==
  { t \in (1..Len(drug_names)) \X (1..Len(drug_names)) \X (1..Len(PassedRecords)) :
      /\ t[1] < t[2]
      /\ Survives(drug_names[t[1]])
      /\ Survives(drug_names[t[2]])
      /\ t[3] \in RecordsFor(drug_names[t[1]], drug_names[t[2]]) }

C20_Witness_RepeatedInput ==
  /\ found /= None
  /\ drug_names = << Name_aspirin, Name_aspirin, Name_Warfarin >>
  /\ Len(PassedRecords) = 1
  /\ Len(TheFound) = 2
  /\ TheFound[1] = TheFound[2]
-----------------------------------------------------------------------------
(* properties of the table and of what the recommender returns from it *)

\* the positions of the rules of `key` in the table as it is now whose band
\* holds the age
RulesHolding(key, age) ==
  { i \in 1..Len(medications[key]) : InBand(medications[key][i], age) }

\* two bands share an age
Overlap(r, s) ==
  /\ r.age_min < s.age_max
  /\ s.age_min < r.age_max

\* C21: in every rule list of the medications table the age bands do not
\* overlap, so at most one rule of a drug holds any age and the first match
\* is the only match.
C21_BandsDoNotOverlap ==
  /\ \A key \in DOMAIN medications :
       \A i \in 1..Len(medications[key]) : \A j \in (i + 1)..Len(medications[key]) :
         ~Overlap(medications[key][i], medications[key][j])
  /\ (call /= None /\ Lower(TheCall.drug_name) \in DOMAIN medications)
     => Cardinality(RulesHolding(Lower(TheCall.drug_name), TheCall.age_years)) <= 1

\* metformin at 18 years, where one band ends and the next begins: the
\* second rule alone holds the age and the call is answered from it
C21_Witness_AgeWhereBandsMeet ==
  /\ call /= None
  /\ TheCall.drug_name = Name_metformin
  /\ TheCall.age_years = Years(18)
  /\ RulesHolding(Name_metformin, Years(18)) = {2}
  /\ rec /= None
  /\ IsRecommendation(TheRec)
-----------------------------------------------------------------------------
(* properties of the text the maximum adjuster prints *)

EndsWith(s, t) == Len(t) <= Len(s) /\ SubSeq(s, Len(s) - Len(t) + 1, Len(s)) = t
AllDigits(s) == s /= << >> /\ \A k \in 1..Len(s) : IsDigit(s[k])
Before(s, t) == SubSeq(s, 1, Len(s) - Len(t))

\* digits, a point and one digit
OneDecimal(s) ==
  /\ Len(s) >= 3
  /\ AllDigits(SubSeq(s, 1, Len(s) - 2))
  /\ s[Len(s) - 1] = "."
  /\ IsDigit(s[Len(s)])

Adjusted_label == <<"(","a","d","j","u","s","t","e","d",")">>

\* the maximum of a form after the reductions, in milligrams when written
\* in grams
Reduced(f, age, weight) == Times(Extracted(f), TotalFactor(age, weight))

\* C22: when adjust_max_for_age_weight parses its input the output ends
\* with '(adjusted)', also when both multipliers are 1; it is in grams per
\* day with one decimal when the unit was g, or was mg with an adjusted
\* value of 1000 or more, and '{value} {unit}/day (adjusted)' without
\* decimals otherwise; micrograms are never converted.
C22_AdjustedOutputFormat ==
  Helped("adjust_max_for_age_weight")
  => \A f \in MaxForms :
       TheHelp.max_str = Written(f)
       => /\ EndsWith(TheHelp.ret, Adjusted_label)
          /\ IF \/ f.unit = Unit_g
                \/ /\ f.unit = Unit_mg
                   /\ ~Less(Reduced(f, TheHelp.age, TheHelp.weight), Frac(1000, 1))
             THEN /\ EndsWith(TheHelp.ret, GDayAdjusted)
                  /\ OneDecimal(Before(TheHelp.ret, GDayAdjusted))
             ELSE /\ EndsWith(TheHelp.ret, <<" ">> \o f.unit \o PerDayAdjusted)
                  /\ AllDigits(Before(TheHelp.ret, <<" ">> \o f.unit \o PerDayAdjusted))

\* 500 mg at 30 years and 70 kg: no reduction, and the label all the same
C22_Witness_LabelWithoutReduction ==
  /\ Helped("adjust_max_for_age_weight")
  /\ TheHelp.max_str = <<"5","0","0"," ","m","g","/","d","a","y">>
  /\ TheHelp.age = Years(30)
  /\ TheHelp.weight = Kg(70)
  /\ TheHelp.ret = <<"5","0","0"," ","m","g","/","d","a","y"," ","(","a","d","j","u","s","t","e","d",")">>

\* 1000 mg unreduced is printed in grams
C22_Witness_ThousandMilligrams ==
  /\ Helped("adjust_max_for_age_weight")
  /\ TheHelp.max_str = <<"1","0","0","0"," ","m","g">>
  /\ TheHelp.age = Years(30)
  /\ TheHelp.weight = Kg(50)
  /\ TheHelp.ret = <<"1",".","0"," ","g","/","d","a","y"," ","(","a","d","j","u","s","t","e","d",")">>

\* 2000 mcg stays in micrograms
C22_Witness_MicrogramsKept ==
  /\ Helped("adjust_max_for_age_weight")
  /\ TheHelp.max_str = <<"2","0","0","0"," ","m","c","g","/","d","a","y">>
  /\ TheHelp.age = Years(30)
  /\ TheHelp.weight = Kg(70)
  /\ TheHelp.ret = <<"2","0","0","0"," ","m","c","g","/","d","a","y"," ","(","a","d","j","u","s","t","e","d",")">>
-----------------------------------------------------------------------------
(* C23 *)

\* the exchanges the history holds, None before the session is initialised
Kept == IF Ready THEN Some(TheHistory) ELSE None

\* C23: after any sequence of add_to_conversation calls the history holds at
\* most 10 entries, and they are exactly the last min(n, 10) of the n
\* exchanges added since the last clear, oldest first.
C23_HistoryKeepsLastTen ==
  Kept /= None =>
    /\ Len(Val(Kept)) <= 10
    /\ Len(Val(Kept)) = IF Len(assistant.added) < 10 THEN Len(assistant.added) ELSE 10
    /\ \A k \in 1..Len(Val(Kept)) :
         Val(Kept)[k] = assistant.added[Len(assistant.added) - Len(Val(Kept)) + k]
    /\ \A k \in 1..(Len(Val(Kept)) - 1) :
         Val(Kept)[k].timestamp < Val(Kept)[k + 1].timestamp

C23_Witness_EleventhExchangeDropsFirst ==
  /\ Kept /= None
  /\ assistant.op = "add"
  /\ Len(assistant.added) = 11
  /\ Len(Val(Kept)) = 10
  /\ Val(Kept)[1].timestamp = 2
  /\ Val(Kept)[10].timestamp = 11
-----------------------------------------------------------------------------
(* C24 *)

\* the prompt of the last question, and whether the box was checked for it
ThePrompt == Val(assistant.prompt).text
Unchecked == assistant.prompt /= None /\ ~Val(assistant.prompt).use_context

\* C24: the prompt built for a question with "Use conversation context"
\* unchecked holds neither earlier questions and answers nor the stored
\* medications and patient information.
C24_NoContextWhenUnchecked ==
  Unchecked =>
    /\ ThePrompt.conversation_context = << >>
    /\ ThePrompt.context_info.medications = None
    /\ ThePrompt.context_info.patient = None

\* the half of C24 on the stored medications and patient information
C24_StoredContextOnlyWhenChecked ==
  Unchecked =>
    /\ ThePrompt.context_info.medications = None
    /\ ThePrompt.context_info.patient = None

\* a second question asked with the box unchecked carries the first exchange
C24_Witness_UncheckedCarriesEarlierExchange ==
  /\ Unchecked
  /\ assistant.op = "ask"
  /\ Len(TheHistory) = 2
  /\ TheContext.patient_info /= None
  /\ ThePrompt.context_info.patient = None
  /\ ThePrompt.conversation_context =
       << [user |-> TheHistory[1].user, assistant |-> TheHistory[1].assistant] >>
-----------------------------------------------------------------------------
(* C25 *)

\* what initialize_conversation_history leaves in a session that had nothing
NewSession == initialize_conversation_history(NoSession)

\* C25: right after "Clear Chat History" the history is empty and the AI
\* context has no medications, no patient information and no recent
\* interactions, which is the state initialize_conversation_history creates
\* for a new session.
C25_ClearResetsToNewSession ==
  assistant.op = "clear" =>
    /\ session_state.conversation_history = Some(<< >>)
    /\ session_state.ai_context /= None
    /\ TheContext.current_medications = << >>
    /\ TheContext.patient_info = None
    /\ TheContext.recent_interactions = << >>
    /\ session_state = NewSession

\* C25, second half: initialize_conversation_history leaves a history and a
\* context that exist as they are.
C25_InitializeKeepsWhatExists ==
  [][ assistant'.op = "initialize" =>
        /\ session_state.conversation_history /= None
             => session_state'.conversation_history = session_state.conversation_history
        /\ session_state.ai_context /= None
             => session_state'.ai_context = session_state.ai_context ]_vars

\* C25: "Clear Chat History" resets the session to the state of a new one,
\* and initialize_conversation_history never overwrites a history or a
\* context that exists.
C25_ClearResetsInitializeKeeps ==
  []C25_ClearResetsToNewSession /\ C25_InitializeKeepsWhatExists

\* the button pressed after two questions
C25_Witness_ClearedFullSession ==
  /\ assistant.op = "clear"
  /\ assistant.clock = 2
  /\ session_state = NewSession

\* a session with a history and medications after main has started again
C25_Witness_InitializedAgain ==
  /\ assistant.op = "initialize"
  /\ Ready
  /\ Len(TheHistory) = 2
  /\ TheContext.current_medications /= << >>
  /\ TheContext.patient_info /= None
-----------------------------------------------------------------------------
(* C26 *)

\* the names recognised in the last question
Recognised == IF assistant.op = "ask" THEN Val(assistant.prompt).entities ELSE << >>

\* no entry of the list occurs twice
NoDuplicates(list) ==
  \A i \in 1..Len(list) : \A j \in 1..Len(list) : list[i] = list[j] => i = j

\* the position of the first occurrence of the name in the list
FirstAt(name, list) == CHOOSE i \in 1..Len(list) : list[i] = name /\ \A j \in 1..(i - 1) : list[j] /= name

\* the names of list are those of all, in the order they first occur in all
InFirstOccurrenceOrder(list, all) ==
  /\ { list[i] : i \in 1..Len(list) } = { all[i] : i \in 1..Len(all) }
  /\ \A i \in 1..Len(list) : \A j \in 1..Len(list) :
       i < j => FirstAt(list[i], all) < FirstAt(list[j], all)

\* C26, on the state: right after a question in which a medication name is
\* recognised, current_medications has no duplicate entries.
C26_NoDuplicatesAfterQuery ==
  (assistant.op = "ask" /\ Recognised /= << >>) => NoDuplicates(TheContext.current_medications)

\* C26, on the step: a question in which a medication name is recognised
\* leaves the entries the list had followed by the recognised names, each
\* once, in the order of first occurrence.
C26_FirstOccurrenceOrderKept ==
  [][ (assistant'.op = "ask" /\ assistant'.clock = assistant.clock + 1
         /\ Val(assistant'.prompt).entities /= << >>)
      => InFirstOccurrenceOrder(
           Val(session_state'.ai_context).current_medications,
           TheContext.current_medications \o Val(assistant'.prompt).entities) ]_vars

\* C26: after an AI query in which at least one medication name is
\* recognised, current_medications has no duplicate entries and keeps its
\* entries in order of first occurrence, whatever preceded the query.
C26_DeduplicatedInOrder ==
  []C26_NoDuplicatesAfterQuery /\ C26_FirstOccurrenceOrderKept

\* a list with a repeated name, from the tabs, is deduplicated by a question
\* that names a medication twice in different case
C26_Witness_RepeatsRemoved ==
  /\ assistant.op = "ask"
  /\ Recognised = << Name_Aspirin, Name_aspirin, Name_Warfarin >>
  /\ TheContext.current_medications =
       << Name_aspirin, Name_metformin, Name_Aspirin, Name_Warfarin >>

\* a question without a recognised name leaves the repeated names in place
C26_Witness_NoNameNoCleanup ==
  /\ assistant.op = "ask"
  /\ Recognised = << >>
  /\ ~NoDuplicates(TheContext.current_medications)
-----------------------------------------------------------------------------
(* C27 *)

\* a number or the lower number of a range, and its unit
AmountPattern == [number |-> "decimal", ranged |-> TRUE, after |-> << >>]

\* an amount in milligrams
InMilligrams(x, unit) ==
  IF unit = Unit_g THEN Frac(x.n * 1000, x.d)
  ELSE IF unit = Unit_mg THEN Frac(x.n, x.d)
  ELSE Frac(x.n, x.d * 1000)

\* the dose read from the dosage text is at most the amount read from the
\* maximum text
WithinMax(dose, max) ==
  (dose.ok /\ max.ok)
    => ~Less(InMilligrams(max.low, max.unit), InMilligrams(dose.low, dose.unit))

\* the texts of a recommendation made for a weight above zero
Recommended ==
  IF rec /= None /\ IsRecommendation(TheRec) /\ TheRec.weight_kg > 0
  THEN Some([dosage |-> TheRec.dosage, max_per_day |-> TheRec.max_per_day,
             per_kg |-> Search(PerKgPattern,
                               Val(SelectRule(medications[Lower(TheRec.drug)],
                                              TheRec.age_years)).dose).ok])
  ELSE None

\* C27: in every recommendation the amount of the dose (the lower one of a
\* range) is at most the amount of max_per_day, both taken in milligrams.
C27_DoseWithinDailyMaximum ==
  Recommended /= None =>
    WithinMax(Search(AmountPattern, Val(Recommended).dosage),
              Search(MaxPattern, Val(Recommended).max_per_day))

\* paracetamol for a newborn of estimated weight: 40.0 mg every 6h, with a
\* maximum of 30 mg/day
C27_Witness_DoseAboveMaximum ==
  /\ call /= None
  /\ TheCall.drug_name = Name_paracetamol
  /\ TheCall.age_years = 0
  /\ TheCall.weight_kg = None
  /\ Recommended /= None
  /\ Search(AmountPattern, TheRec.dosage).low = Frac(40, 1)
  /\ Search(AmountPattern, TheRec.dosage).unit = Unit_mg
  /\ Search(MaxPattern, TheRec.max_per_day).low = Frac(30, 1)
  /\ Search(MaxPattern, TheRec.max_per_day).unit = Unit_mg

\* omeprazole at 80 years and 20 kg, a dose that is not per kilogram: 20 mg
\* daily, with a maximum of 18 mg/day
C27_Witness_FixedDoseAboveMaximum ==
  /\ call /= None
  /\ TheCall.drug_name = Name_omeprazole
  /\ TheCall.age_years = Years(80)
  /\ TheCall.weight_kg = Some(Kg(20))
  /\ Recommended /= None
  /\ ~Val(Recommended).per_kg
  /\ Search(AmountPattern, TheRec.dosage).low = Frac(20, 1)
  /\ Search(MaxPattern, TheRec.max_per_day).low = Frac(18, 1)
  /\ Search(MaxPattern, TheRec.max_per_day).unit = Unit_mg
-----------------------------------------------------------------------------
(* C28 *)

\* the amount a maximum text holds, in milligrams, None when it holds none
ReadAmount(match) ==
  IF match.ok THEN Some(InMilligrams(match.low, match.unit)) ELSE None
AmountOf(text) == ReadAmount(Search(MaxPattern, text))

\* x <= y for amounts
AtMost(x, y) == ~Less(y, x)

\* half of the last digit the adjuster prints, in milligrams: 0.05 g for a
\* result in grams, else half a unit
HalfStep(match) ==
  IF match.unit = Unit_g THEN Frac(50, 1)
  ELSE IF match.unit = Unit_mg THEN Frac(1, 2)
  ELSE Frac(1, 2000)

Plus(x, y) == Frac(x.n * y.d + y.n * x.d, x.d * y.d)

\* the adjusted amount does not go up when the age goes up or the weight
\* goes down
NonIncreasing(max_str, age, weight, adjusted) ==
  /\ \A older \in MaxAges :
       older >= age
         => AtMost(Val(AmountOf(adjust_max_for_age_weight(max_str, older, weight))), adjusted)
  /\ \A lighter \in HelperWeights :
       lighter <= weight
         => AtMost(Val(AmountOf(adjust_max_for_age_weight(max_str, age, lighter))), adjusted)

\* the bounds of C28 on an original and an adjusted amount
NotRaised(original, adjusted) == AtMost(adjusted, original)
AtLeastFortyFiveHundredths(original, adjusted) ==
  AtMost(Times(original, Frac(45, 100)), adjusted)
AtLeastFortyFiveHundredthsRounded(original, adjusted, step) ==
  AtMost(Times(original, Frac(45, 100)), Plus(adjusted, step))

\* a call of the adjuster on a maximum text of the table, which it parses
Adjusting ==
  /\ Helped("adjust_max_for_age_weight")
  /\ TheHelp.max_str \in TableMaxTexts
  /\ AmountOf(TheHelp.max_str) /= None

\* C28 as stated: for a maximum text of the table the adjusted amount, in
\* one unit with the original, is at most the original and at least 0.45
\* times it, and it does not go up as the age passes 65 and 80 or the weight
\* falls below 50.
C28_NeverRaisedNeverBelowFortyFiveHundredths ==
  Adjusting =>
    /\ NotRaised(Val(AmountOf(TheHelp.max_str)), Val(AmountOf(TheHelp.ret)))
    /\ AtLeastFortyFiveHundredths(Val(AmountOf(TheHelp.max_str)), Val(AmountOf(TheHelp.ret)))
    /\ NonIncreasing(TheHelp.max_str, TheHelp.age, TheHelp.weight, Val(AmountOf(TheHelp.ret)))

\* C28, amended: for a maximum text of the table the adjusted amount is at
\* most the original, at least 0.45 times it less half of the last printed
\* digit (0.05 g for a result in grams, else half a unit), and it does not
\* go up as the age passes 65 and 80 or the weight falls below 50.
C28_NeverRaisedBoundedUpToRounding ==
  Adjusting =>
    /\ NotRaised(Val(AmountOf(TheHelp.max_str)), Val(AmountOf(TheHelp.ret)))
    /\ AtLeastFortyFiveHundredthsRounded(
         Val(AmountOf(TheHelp.max_str)), Val(AmountOf(TheHelp.ret)),
         HalfStep(Search(MaxPattern, TheHelp.ret)))
    /\ NonIncreasing(TheHelp.max_str, TheHelp.age, TheHelp.weight, Val(AmountOf(TheHelp.ret)))

\* adjust_max_for_age_weight("2.5 g/day", 80, 20) is "1.1 g/day (adjusted)",
\* and 0.45 times 2.5 g is 1.125 g
C28_Witness_RoundedBelowBound ==
  /\ Adjusting
  /\ TheHelp.max_str = <<"2",".","5"," ","g","/","d","a","y">>
  /\ TheHelp.age = Years(80)
  /\ TheHelp.weight = Kg(20)
  /\ AmountOf(TheHelp.ret) = Some(Frac(1100, 1))
-----------------------------------------------------------------------------
(* C29 *)

\* the names of the table: both columns of every record, in lower case
TableNames ==
  { Lower(PassedRecords[k].drug_a) : k \in 1..Len(PassedRecords) }
    \cup { Lower(PassedRecords[k].drug_b) : k \in 1..Len(PassedRecords) }

\* the record r holds the two names, in either column order
HoldsPair(r, x, y) ==
  \/ Lower(r.drug_a) = x /\ Lower(r.drug_b) = y
  \/ Lower(r.drug_a) = y /\ Lower(r.drug_b) = x

\* the entry e of the result carries the values of the record r
Backs(r, e) ==
  /\ HoldsPair(r, e.matched_a, e.matched_b)
  /\ e.severity = r.severity
  /\ e.description = r.description
  /\ e.source = IF r.source = None THEN "local" ELSE Val(r.source)

\* C29: every entry find_ddi_local returns has non-empty matched names that
\* are names of the table, and some record of the table holds exactly that
\* pair of names, in either column order, with the entry's severity,
\* description and source (the source being 'local' when the record has
\* none).
C29_EveryPairBackedByRecord ==
  found /= None =>
    \A k \in 1..Len(TheFound) :
      /\ TheFound[k].matched_a /= << >>
      /\ TheFound[k].matched_b /= << >>
      /\ TheFound[k].matched_a \in TableNames
      /\ TheFound[k].matched_b \in TableNames
      /\ \E i \in 1..Len(PassedRecords) : Backs(PassedRecords[i], TheFound[k])

\* Warfarin and aspirin matched against a record that names them in the
\* other column order and has no source
C29_Witness_BackedInOtherOrder ==
  /\ found /= None
  /\ ddi_call = "find_ddi_local"
  /\ drug_names = << Name_Warfarin, Name_aspirin >>
  /\ local_records = << Row_Aspirin_Warfarin, Row_vitamin_k_warfarin >>
  /\ Len(TheFound) = 1
  /\ TheFound[1].matched_a = Name_warfarin
  /\ TheFound[1].matched_b = Name_aspirin
  /\ TheFound[1].severity = Row_Aspirin_Warfarin.severity
  /\ TheFound[1].source = "local"
-----------------------------------------------------------------------------
(* C30 *)

\* an entry with the input names and the matched names exchanged
SwappedEntry(e) ==
  [e EXCEPT !.drug_a = e.drug_b, !.drug_b = e.drug_a,
            !.matched_a = e.matched_b, !.matched_b = e.matched_a]
Swapped(list) == [k \in 1..Len(list) |-> SwappedEntry(list[k])]

\* the outcomes of the call in the other input order that resolve the names
\* as the mapping map does
SameResolution(outcomes, map) == { out \in outcomes : out.mapping = map }

\* the call in the other order returns the list ret with every entry swapped
Mirrors(outcomes, ret) ==
  /\ outcomes /= {}
  /\ \A out \in outcomes :
       /\ out.raised = ""
       /\ Len(out.ret) = Len(ret)
       /\ out.ret = Swapped(ret)

\* a direct call of find_ddi_local on two distinct names has returned
TwoNamesChecked ==
  /\ ddi_call = "find_ddi_local"
  /\ found /= None
  /\ Len(drug_names) = 2
  /\ drug_names[1] /= drug_names[2]

\* C30: for two distinct input names, find_ddi_local on [y, x] over the same
\* records and threshold returns as many entries as on [x, y], with the same
\* severity, description and source in the same order, and with drug_a and
\* drug_b, matched_a and matched_b exchanged.
C30_SymmetricInInputOrder ==
  TwoNamesChecked =>
    Mirrors(SameResolution(find_ddi_local(<< drug_names[2], drug_names[1] >>,
                                          local_records, fuzz_threshold),
                           mapping),
            TheFound)

\* aspirin before Warfarin, with two records of the pair in both column orders
C30_Witness_TwoRecordsBothOrders ==
  /\ TwoNamesChecked
  /\ drug_names = << Name_aspirin, Name_Warfarin >>
  /\ local_records = << Row_warfarin_aspirin, Row_Aspirin_Warfarin >>
  /\ Len(TheFound) = 2
  /\ TheFound[1].matched_a = Name_aspirin
  /\ TheFound[1].matched_b = Name_warfarin
  /\ TheFound[1].severity = "High"
  /\ TheFound[2].severity = "Medium"
====
